---------------------------- MODULE Spec2Model ----------------------------
(***************************************************************************)
(* llm-multi: the concurrent mapping engine (src/src/llm_multi/map.py),    *)
(* the container formats (src/src/llm_multi/format.py), the archive        *)
(* (src/src/llm_multi/archive.py) and the two commands                     *)
(* (src/src/llm_multi/cli.py).                                             *)
(*                                                                         *)
(* One run of map_items is modelled: the main thread expands the items,    *)
(* creates the pool, submits one task per expanded item, collects the      *)
(* futures with as_completed, leaves the pool and encodes the results.     *)
(* Worker threads of the pool are anonymous: a task is taken from the      *)
(* FIFO work queue, started, its backend call returns or raises (or never  *)
(* returns), and its future is completed.                                  *)
(*                                                                         *)
(* The map command validates its options, decodes the container and runs.  *)
(* The archive command bundles files into a container or extracts one;     *)
(* containers are texts, encoded and decoded symbol by symbol.             *)
(***************************************************************************)
EXTENDS Integers, Sequences, FiniteSets, TLC

(***************************************************************************)
(* Bounds of the model                                                     *)
(***************************************************************************)
MaxTasks == 3

MaxBranches == 2

MaxConcurrency == 2

\* The largest branch count of the expansions checked on their own.
MaxExpandBranches == 11

\* The longest prompt template, in tokens, of the prompts checked on their own.
MaxTemplateLen == 3

\* The files of one archive command, and the items of one container.
MaxFiles == 2

\* The lines of one line-delimited container.
MaxLines == 3

\* The lines of the jsonl file of a run started from its text.
MaxInputLines == 2

(***************************************************************************)
(* Input domains                                                           *)
(***************************************************************************)
NoValue == "<none>"

PLACEHOLDER == "{item}"

\* Items of the input container: two paths, two contents, one path twice.
ItemCycle ==
    << [path |-> "a", content |-> "x"],
       [path |-> "b", content |-> "y"],
       [path |-> "a", content |-> "y"] >>

ItemAt(k) == ItemCycle[((k - 1) % Len(ItemCycle)) + 1]

\* The decoded containers: every window of the cycle, up to n items.
Containers(n) ==
    { [ k \in 1..len |-> ItemAt(k + shift) ] :
        len \in 0..n, shift \in 0..(Len(ItemCycle) - 1) }

\* The prompt template of the runs, as a sequence of tokens.
Templates == { <<"Q:", PLACEHOLDER>> }

\* llm.get_model(model): the model of the run is registered, or it is not.
Models == {"known", "unknown"}

\* The tokens of a prompt template: literal text and the placeholder.
TemplateTokens == {"Q: ", " vs ", PLACEHOLDER}

\* Every template of at most n tokens; the empty one is the empty string.
TemplatesUpTo(n) == UNION { [1..k -> TemplateTokens] : k \in 0..n }

\* Contents for the prompts: plain, empty, and the placeholder's own text.
PromptContents == {"X", "", PLACEHOLDER}

Formats == {"jsonl", "json", "jsonarr"}

\* The output argument: absent (standard output) or the name of a file.
Outputs == {"None", "out.jsonl"}

\* What the output file holds before the run.
PriorFile == << "previous\n" >>

(***************************************************************************)
(* Text helpers                                                            *)
(***************************************************************************)
Digit(d) ==
    CASE d = 0 -> "0" [] d = 1 -> "1" [] d = 2 -> "2" [] d = 3 -> "3"
      [] d = 4 -> "4" [] d = 5 -> "5" [] d = 6 -> "6" [] d = 7 -> "7"
      [] d = 8 -> "8" [] d = 9 -> "9"

RECURSIVE str(_)
str(n) == IF n < 10 THEN Digit(n) ELSE str(n \div 10) \o Digit(n % 10)

RECURSIVE zfill(_, _)
zfill(s, width) == IF Len(s) >= width THEN s ELSE zfill("0" \o s, width)

RECURSIVE Join(_)
Join(parts) == IF parts = <<>> THEN "" ELSE Head(parts) \o Join(Tail(parts))

Get(d, key, default) == IF key \in DOMAIN d THEN d[key] ELSE default

\* Whether the item has the method get: a dict has, a list or a string,
\* which a jsonl line may also decode to, has not.
is_dict(item) == "nondict" \notin DOMAIN item

\* Whether a completed future holds an exception instead of a result.
holds_exception(f) == "raised" \in DOMAIN f

(***************************************************************************)
(* expand_branches                                                         *)
(***************************************************************************)
\* Mutant: the width of the branch count itself.
pad_width_of_count(branches) == Len(str(branches))

pad_width(branches) == Len(str(branches - 1))

\* Mutant: the dict itself instead of a copy of it.
item_copy_alias(heap, a) == [heap |-> heap, addr |-> a]

\* item.copy(): a new dict, at a new address, with the entries of the dict
\* at address a. The heap is the sequence of the dicts allocated so far.
item_copy(heap, a) == [heap |-> Append(heap, heap[a]), addr |-> Len(heap) + 1]

\* The state of the two loops: the heap, the addresses appended to
\* expanded, the branch i and the position j in items (the dict at address
\* j). The body of the inner loop: the copy gets the prefixed path of the
\* item and is appended to expanded.
expanded_item(st, branches) ==
    LET c == item_copy(st.heap, st.j)
        path == zfill(str(st.i), pad_width(branches))
                    \o "_" \o c.heap[st.j].path
    IN  [st EXCEPT !.heap = [c.heap EXCEPT ![c.addr].path = path],
                   !.expanded = Append(st.expanded, c.addr),
                   !.j = st.j + 1]

\* for item in items, from position st.j on
RECURSIVE expand_items(_, _, _)
expand_items(st, n, branches) ==
    IF st.j > n
    THEN st
    ELSE expand_items(expanded_item(st, branches), n, branches)

\* for i in range(branches), from branch st.i on
RECURSIVE expand_range(_, _, _)
expand_range(st, n, branches) ==
    IF st.i >= branches
    THEN st
    ELSE expand_range(
             [expand_items([st EXCEPT !.j = 1], n, branches)
                 EXCEPT !.i = st.i + 1],
             n, branches)

\* expand_branches(items, branches): the dicts of the caller's list after
\* the call (items) and the dicts of the list returned (expanded).
expand_branches(its, branches) ==
    LET st == IF branches = 1
              THEN [heap |-> its, expanded |-> [ k \in 1..Len(its) |-> k ]]
              ELSE expand_range([heap |-> its, expanded |-> <<>>,
                                 i |-> 0, j |-> 1],
                                Len(its), branches)
    IN  [items |-> SubSeq(st.heap, 1, Len(its)),
         expanded |-> [ k \in 1..Len(st.expanded) |-> st.heap[st.expanded[k]] ]]

(***************************************************************************)
(* process_item: the prompt, the backend call and the result               *)
(***************************************************************************)
FirstPlaceholder(template) ==
    CHOOSE k \in 1..Len(template) :
        /\ template[k] = PLACEHOLDER
        /\ \A j \in 1..(k - 1) : template[j] /= PLACEHOLDER

\* Mutant: every occurrence of the placeholder is replaced.
formatted_prompt_replace_all(template, content) ==
    IF template = <<>>
    THEN content
    ELSE IF \E k \in 1..Len(template) : template[k] = PLACEHOLDER
         THEN Join([ k \in 1..Len(template) |->
                      IF template[k] = PLACEHOLDER THEN content ELSE template[k] ])
         ELSE Join(template) \o "\n" \o content

formatted_prompt(template, content) ==
    IF template = <<>>
    THEN content
    ELSE IF \E k \in 1..Len(template) : template[k] = PLACEHOLDER
         THEN Join([template EXCEPT ![FirstPlaceholder(template)] = content])
         ELSE Join(template) \o "\n" \o content

\* The backend is deterministic: the generated text and the fault message
\* are functions of the prompt.
response_text(prompt) == "R(" \o prompt \o ")"

fault_message(prompt) == "E(" \o prompt \o ")"

with_input(result, item, include) ==
    IF include
    THEN result @@ [input |-> Get(item, "content", "")]
    ELSE result

\* Mutant: a success that also carries an error field.
success_result_with_error(item, template, include) ==
    with_input([path |-> Get(item, "path", ""),
                content |-> response_text(
                    formatted_prompt(template, Get(item, "content", ""))),
                error |-> ""],
               item, include)

success_result(item, template, include) ==
    with_input([path |-> Get(item, "path", ""),
                content |-> response_text(
                    formatted_prompt(template, Get(item, "content", "")))],
               item, include)

\* Mutant: the fault's message is dropped.
failure_result_no_message(item, template, include) ==
    with_input([path |-> Get(item, "path", ""), error |-> ""], item, include)

\* Mutant: the except branch forgets the input echo.
failure_result_no_input(item, template, include) ==
    [path |-> Get(item, "path", ""),
     error |-> fault_message(
         formatted_prompt(template, Get(item, "content", "")))]

failure_result(item, template, include) ==
    with_input([path |-> Get(item, "path", ""),
                error |-> fault_message(
                    formatted_prompt(template, Get(item, "content", "")))],
               item, include)

\* str(e) of the exception llm.get_model raises.
unknown_model_message == "Unknown model"

\* llm.get_model raised: the except branch, model_obj.prompt never called.
lookup_failure_result(item, include) ==
    with_input([path |-> Get(item, "path", ""),
                error |-> unknown_model_message],
               item, include)

process_item(item, template, include, oc) ==
    IF oc = "ok"
    THEN success_result(item, template, include)
    ELSE failure_result(item, template, include)

(***************************************************************************)
(* output_results: the three encodings                                     *)
(***************************************************************************)
Quote(s) == "\"" \o s \o "\""

dumps_result(r) ==
    "{" \o Quote("path") \o ": " \o Quote(r.path)
        \o (IF "error" \in DOMAIN r
            THEN ", " \o Quote("error") \o ": " \o Quote(r.error)
            ELSE ", " \o Quote("content") \o ": " \o Quote(r.content))
        \o (IF "input" \in DOMAIN r
            THEN ", " \o Quote("input") \o ": " \o Quote(r.input)
            ELSE "")
        \o "}"

json_value(r) ==
    IF "error" \in DOMAIN r
    THEN "{" \o Quote("error") \o ": " \o Quote(r.error) \o "}"
    ELSE Quote(r.content)

\* Mutant: an existing key keeps the value it has.
dict_set_keep_first(d, key, val) ==
    IF \E j \in 1..Len(d) : d[j][1] = key
    THEN d
    ELSE Append(d, <<key, val>>)

\* A dict keeps its keys in insertion order; assigning to an existing key
\* replaces the value in place.
dict_set(d, key, val) ==
    IF \E j \in 1..Len(d) : d[j][1] = key
    THEN [ j \in 1..Len(d) |-> IF d[j][1] = key THEN <<key, val>> ELSE d[j] ]
    ELSE Append(d, <<key, val>>)

RECURSIVE json_result_object(_, _)
json_result_object(res, d) ==
    IF res = <<>>
    THEN d
    ELSE json_result_object(Tail(res),
                            dict_set(d, Head(res).path, json_value(Head(res))))

RECURSIVE JoinWith(_, _)
JoinWith(parts, sep) ==
    IF parts = <<>> THEN ""
    ELSE IF Len(parts) = 1 THEN Head(parts)
    ELSE Head(parts) \o sep \o JoinWith(Tail(parts), sep)

dumps_object(d) ==
    "{" \o JoinWith([ j \in 1..Len(d) |-> Quote(d[j][1]) \o ": " \o d[j][2] ], ", ")
        \o "}"

dumps_array(vals) == "[" \o JoinWith(vals, ", ") \o "]"

jsonl_lines(res) == [ k \in 1..Len(res) |-> dumps_result(res[k]) ]

json_text(res) == dumps_object(json_result_object(res, <<>>))

jsonarr_text(res) ==
    dumps_array([ k \in 1..Len(res) |-> json_value(res[k]) ])

\* click.echo(s): s and a newline on standard output.
RECURSIVE echo_all(_, _)
echo_all(out, texts) ==
    IF texts = <<>>
    THEN out
    ELSE echo_all(Append(out, Head(texts) \o "\n"), Tail(texts))

\* open(output_file, "a") and write(line + "\n"), once per line.
RECURSIVE append_all(_, _)
append_all(f, texts) ==
    IF texts = <<>>
    THEN f
    ELSE append_all(Append(f, Head(texts) \o "\n"), Tail(texts))

\* open(output_file, "w") and write(text): the file holds text alone.
overwrite(f, text) == << text >>

\* output_results without an output file: what standard output holds.
output_to_stdout(out, res, fmt) ==
    CASE fmt = "jsonl" -> echo_all(out, jsonl_lines(res))
      [] fmt = "json" -> echo_all(out, << json_text(res) >>)
      [] fmt = "jsonarr" -> echo_all(out, << jsonarr_text(res) >>)

\* Mutant: the jsonl lines are written to a file opened afresh.
output_to_file_truncating(f, res, fmt) ==
    CASE fmt = "jsonl" -> append_all(<<>>, jsonl_lines(res))
      [] fmt = "json" -> overwrite(f, json_text(res))
      [] fmt = "jsonarr" -> overwrite(f, jsonarr_text(res))

\* output_results with an output file: what the file holds.
output_to_file(f, res, fmt) ==
    CASE fmt = "jsonl" -> append_all(f, jsonl_lines(res))
      [] fmt = "json" -> overwrite(f, json_text(res))
      [] fmt = "jsonarr" -> overwrite(f, jsonarr_text(res))

(***************************************************************************)
(* Containers as text                                                      *)
(*                                                                         *)
(* A text is a sequence of symbols. A symbol is one character, or one of   *)
(* the escape sequences that the decoders read as a unit: the JSON escapes *)
(* \", \\ and \n and the HTML entities of html.escape. Paths and contents  *)
(* are texts of characters.                                                *)
(***************************************************************************)
Whitespace == {" ", "\n"}

\* The k-th element, in increasing order, of a finite set of integers.
Nth(S, k) == CHOOSE x \in S : Cardinality({ y \in S : y < x }) = k - 1

\* The least position from p on that holds c, Len(t) + 1 if none.
First(t, p, c) ==
    LET hits == { q \in p..Len(t) : t[q] = c }
    IN  IF hits = {} THEN Len(t) + 1 ELSE Nth(hits, 1)

RECURSIVE ConcatWith(_, _)
ConcatWith(texts, sep) ==
    IF texts = <<>> THEN <<>>
    ELSE IF Len(texts) = 1 THEN Head(texts)
    ELSE Head(texts) \o sep \o ConcatWith(Tail(texts), sep)

\* s.strip()
strip(t) ==
    LET solid == { q \in 1..Len(t) : t[q] \notin Whitespace }
    IN  IF solid = {} THEN <<>>
        ELSE SubSeq(t, Nth(solid, 1), Nth(solid, Cardinality(solid)))

\* s.split(sep), for a separator of one character
split(t, sep) ==
    LET at == { q \in 1..Len(t) : t[q] = sep }
        cut(k) == IF k = 0 THEN 0
                  ELSE IF k > Cardinality(at) THEN Len(t) + 1
                  ELSE Nth(at, k)
    IN  [ k \in 1..(Cardinality(at) + 1) |->
            SubSeq(t, cut(k - 1) + 1, cut(k) - 1) ]

\* s.replace(old, new), for one character each
replace(t, old, new) == [ k \in 1..Len(t) |-> IF t[k] = old THEN new ELSE t[k] ]

(***************************************************************************)
(* json.dumps and json.loads, for strings, dicts of strings and lists of   *)
(* strings. A dict is the sequence of its <<key, value>> pairs.            *)
(***************************************************************************)
json_escape(c) ==
    CASE c = "\"" -> "\\\""
      [] c = "\\" -> "\\\\"
      [] c = "\n" -> "\\n"
      [] OTHER -> c

json_unescape(sym) ==
    CASE sym = "\\\"" -> "\""
      [] sym = "\\\\" -> "\\"
      [] sym = "\\n" -> "\n"
      [] OTHER -> sym

json_dumps_str(s) ==
    <<"\"">> \o [ k \in 1..Len(s) |-> json_escape(s[k]) ] \o <<"\"">>

json_dumps_dict(d) ==
    <<"{">>
      \o ConcatWith([ k \in 1..Len(d) |->
                        json_dumps_str(d[k][1]) \o <<":", " ">>
                            \o json_dumps_str(d[k][2]) ],
                    <<",", " ">>)
      \o <<"}">>

json_dumps_list(l) ==
    <<"[">>
      \o ConcatWith([ k \in 1..Len(l) |-> json_dumps_str(l[k]) ], <<",", " ">>)
      \o <<"]">>

JSONError == [ok |-> FALSE]

\* json.dumps of the dict comprehension {item[0]: item[1] for item in items}:
\* a later pair replaces the value of an earlier one with the same key.
RECURSIVE dict_of(_, _)
dict_of(pairs, d) ==
    IF pairs = <<>> THEN d
    ELSE dict_of(Tail(pairs), dict_set(d, Head(pairs)[1], Head(pairs)[2]))

\* What is left of a text when each string literal is replaced by a quote
\* and the whitespace around the literals is dropped, for n literals that
\* are the members of a dict, the members of a list, or alone.
JSONShape(kind, n) ==
    CASE kind = "dict" ->
           <<"{">> \o ConcatWith([ k \in 1..(n \div 2) |-> <<"\"", ":", "\"">> ], <<",">>)
               \o <<"}">>
      [] kind = "list" ->
           <<"[">> \o ConcatWith([ k \in 1..n |-> <<"\"">> ], <<",">>) \o <<"]">>
      [] kind = "str" -> <<"\"">>

\* json.loads(t). A string literal runs from a quote to the next quote, so
\* the k-th literal lies between the quotes 2k-1 and 2k of t; a raw newline
\* or backslash inside a literal, a quote without its pair, and any text
\* around the literals other than that of a dict, a list or a lone string
\* is an error.
json_loads(t) ==
    LET quotes == { q \in 1..Len(t) : t[q] = "\"" }
        n == Cardinality(quotes) \div 2
        inside(q) == Cardinality({ r \in quotes : r < q }) % 2 = 1
        string(k) == [ j \in 1..(Nth(quotes, 2 * k) - Nth(quotes, 2 * k - 1) - 1) |->
                         json_unescape(t[Nth(quotes, 2 * k - 1) + j]) ]
        marks == { q \in 1..Len(t) :
                     IF q \in quotes THEN ~inside(q)
                     ELSE ~inside(q) /\ t[q] \notin Whitespace }
        shape == [ i \in 1..Cardinality(marks) |-> t[Nth(marks, i)] ]
        kind == CASE shape = JSONShape("dict", n) /\ n % 2 = 0 -> "dict"
                  [] shape = JSONShape("list", n) -> "list"
                  [] shape = JSONShape("str", n) /\ n = 1 -> "str"
                  [] OTHER -> NoValue
    IN  IF \/ Cardinality(quotes) % 2 = 1
           \/ \E q \in 1..Len(t) : q \notin quotes /\ inside(q) /\ t[q] \in {"\n", "\\"}
           \/ kind = NoValue
        THEN JSONError
        ELSE [ok |-> TRUE, kind |-> kind,
              val |-> CASE kind = "dict" ->
                             dict_of([ k \in 1..(n \div 2) |->
                                         << string(2 * k - 1), string(2 * k) >> ], <<>>)
                        [] kind = "list" -> [ k \in 1..n |-> string(k) ]
                        [] kind = "str" -> string(1)]

(***************************************************************************)
(* The tagged formats: html.escape, html.unescape, the tag of a path and   *)
(* re.findall(r"<([^>]+)>(.*?)</\1>", content, re.DOTALL)                  *)
(***************************************************************************)
html_escape(c) ==
    CASE c = "&" -> "&amp;"
      [] c = "<" -> "&lt;"
      [] c = ">" -> "&gt;"
      [] c = "\"" -> "&quot;"
      [] c = "'" -> "&#x27;"
      [] OTHER -> c

html_unescape(sym) ==
    CASE sym = "&amp;" -> "&"
      [] sym = "&lt;" -> "<"
      [] sym = "&gt;" -> ">"
      [] sym = "&quot;" -> "\""
      [] sym = "&#x27;" -> "'"
      [] OTHER -> sym

\* The characters of [a-zA-Z0-9_-] that the model's paths are made of.
TagChars == {"a", "b", "c", "d", "e", "i", "m", "s", "t", "x", "0", "1", "2", "_", "-"}

\* re.sub(r"[^a-zA-Z0-9_-]", "_", display_path)
tag_name(path) == [ k \in 1..Len(path) |-> IF path[k] \in TagChars THEN path[k] ELSE "_" ]

\* The match of the pattern that starts at position s, if there is one: the
\* tag runs to the next ">", the body to the first "</tag>" after it.
match_at(t, s) ==
    LET g == First(t, s + 1, ">")
        tag == SubSeq(t, s + 1, g - 1)
        closing == <<"<", "/">> \o tag \o <<">">>
        ends == { e \in (g + 1)..(Len(t) - Len(closing) + 1) :
                    SubSeq(t, e, e + Len(closing) - 1) = closing }
    IN  IF t[s] = "<" /\ g <= Len(t) /\ g > s + 1 /\ ends /= {}
        THEN [ok |-> TRUE, tag |-> tag,
              body |-> SubSeq(t, g + 1, Nth(ends, 1) - 1),
              next |-> Nth(ends, 1) + Len(closing)]
        ELSE [ok |-> FALSE]

\* The matches from position p on, leftmost first and not overlapping.
RECURSIVE findall(_, _, _)
findall(t, p, acc) ==
    LET starts == { s \in p..Len(t) : match_at(t, s).ok }
        m == match_at(t, Nth(starts, 1))
    IN  IF starts = {}
        THEN acc
        ELSE findall(t, m.next, Append(acc, m))

\* Mutant: the body of a match as it stands.
tag_content_raw(body, format) == body

\* The body of a match without the one newline after the opening tag and
\* the one before the closing tag, unescaped for xml.
tag_content(body, format) ==
    LET a == IF body /= <<>> /\ Head(body) = "\n" THEN Tail(body) ELSE body
        b == IF a /= <<>> /\ a[Len(a)] = "\n" THEN SubSeq(a, 1, Len(a) - 1) ELSE a
    IN  IF format = "xml" THEN [ k \in 1..Len(b) |-> html_unescape(b[k]) ] ELSE b

(***************************************************************************)
(* Paths: pathlib on texts whose components are separated by "/"           *)
(***************************************************************************)
\* Mutant: every path is taken to have the prefix.
relative_to_unchecked(path, base) == [ok |-> TRUE, val |-> path]

\* path.relative_to(base): the components of path after those of base; a
\* ValueError when base is not a prefix of path, component by component.
relative_to(path, base) ==
    LET p == split(path, "/")
        b == split(base, "/")
    IN  IF Len(b) <= Len(p) /\ SubSeq(p, 1, Len(b)) = b
        THEN [ok |-> TRUE,
              val |-> IF Len(p) = Len(b) THEN <<".">>
                      ELSE ConcatWith(SubSeq(p, Len(b) + 1, Len(p)), <<"/">>)]
        ELSE [ok |-> FALSE]

\* path.name: the last component
name(path) == LET p == split(path, "/") IN p[Len(p)]

(***************************************************************************)
(* create_archive, parse_input and extract_archive                         *)
(*                                                                         *)
(* An item is the dict {"path": p, "content": c}. A disk maps the path of  *)
(* each file to its content; faulty is the set of paths that open() fails  *)
(* on. A warning is a pair of its kind and of what it is about.            *)
(***************************************************************************)
K_PATH == <<"path">>

K_CONTENT == <<"content">>

item_dict(p, c) == << <<K_PATH, p>>, <<K_CONTENT, c>> >>

\* click.echo(text) on a standard stream that holds out
echo(out, text) == out \o text \o <<"\n">>

\* create_archive_output(items, format): what it echoes, after out
create_archive_output(out, pairs, format) ==
    CASE format = "jsonl" ->
           out \o ConcatWith([ k \in 1..Len(pairs) |->
                                 echo(<<>>, json_dumps_dict(
                                     item_dict(pairs[k][1], pairs[k][2]))) ],
                             <<>>)
      [] format = "json" -> echo(out, json_dumps_dict(dict_of(pairs, <<>>)))
      [] format = "jsonarr" ->
           echo(out, json_dumps_list([ k \in 1..Len(pairs) |-> pairs[k][2] ]))
      [] OTHER -> out

\* What create_archive echoes for one file, in the formats that are written
\* file by file.
archive_record(display_path, content, format) ==
    IF format = "jsonl"
    THEN json_dumps_dict(item_dict(display_path, content))
    ELSE <<"<">> \o tag_name(display_path) \o <<">", "\n">>
         \o (IF format = "xml"
             THEN [ k \in 1..Len(content) |-> html_escape(content[k]) ]
             ELSE content)
         \o <<"\n", "<", "/">> \o tag_name(display_path) \o <<">">>

\* The body of the loop of create_archive for one file, from the state st
\* of the loop: standard output, the warnings, the files opened and the
\* items set aside.
create_file(st, path, basename, basedir, format, disk, faulty) ==
    LET rel == IF basedir = <<>>
               THEN [ok |-> TRUE, val |-> path]
               ELSE relative_to(path, basedir)
        display_path == IF basename THEN name(path) ELSE rel.val
        read == [st EXCEPT !.opened = Append(@, <<"r", path>>)]
    IN  IF ~rel.ok
        THEN [st EXCEPT !.warnings = Append(@, <<"prefix", path>>)]
        ELSE IF path \notin DOMAIN disk \/ path \in faulty
        THEN [st EXCEPT !.warnings = Append(@, <<"read", path>>)]
        ELSE IF format \in {"jsonl", "xml", "xmlish"}
        THEN [read EXCEPT !.out = echo(@, archive_record(display_path,
                                                         disk[path], format))]
        ELSE [read EXCEPT !.items = Append(@, <<display_path, disk[path]>>)]

\* The loop over the files, from the first one on, until one fails.
RECURSIVE create_files_until_failure(_, _, _, _, _, _, _)
create_files_until_failure(st, files, basename, basedir, format, disk, faulty) ==
    IF files = <<>> \/ st.warnings /= <<>>
    THEN st
    ELSE create_files_until_failure(
             create_file(st, Head(files), basename, basedir, format, disk, faulty),
             Tail(files), basename, basedir, format, disk, faulty)

\* for file_path in files
RECURSIVE create_files(_, _, _, _, _, _, _)
create_files(st, files, basename, basedir, format, disk, faulty) ==
    IF files = <<>>
    THEN st
    ELSE create_files(
             create_file(st, Head(files), basename, basedir, format, disk, faulty),
             Tail(files), basename, basedir, format, disk, faulty)

\* The result of create_archive for the final state st of its loop.
created(st, format) ==
    [out |-> IF format /= "jsonl"
             THEN create_archive_output(st.out, st.items, format)
             ELSE st.out,
     warnings |-> st.warnings,
     opened |-> st.opened]

create_archive(files, basename, basedir, format, disk, faulty) ==
    created(create_files([out |-> <<>>, warnings |-> <<>>, opened |-> <<>>,
                          items |-> <<>>],
                         files, basename, basedir, format, disk, faulty),
            format)

\* Mutant: the loop over the lines ends at the first line that json.loads
\* rejects.
loaded_lines_until_error(content) ==
    LET lines == SelectSeq(split(content, "\n"), LAMBDA l : strip(l) /= <<>>)
        bad == { k \in 1..Len(lines) : ~json_loads(lines[k]).ok }
    IN  [ k \in 1..(IF bad = {} THEN Len(lines) ELSE Nth(bad, 1)) |->
            json_loads(lines[k]) ]

\* The lines of content that are not blank, each with its json.loads.
loaded_lines(content) ==
    LET lines == SelectSeq(split(content, "\n"), LAMBDA l : strip(l) /= <<>>)
    IN  [ k \in 1..Len(lines) |-> json_loads(lines[k]) ]

\* The members of a container decoded as a whole, as <<path, content>>
\* pairs: those of the JSON value v for json and jsonarr, those of the
\* matches found for xml and xmlish. The members of a jsonarr container
\* are named item_i followed by suffix. Not ok when json.loads or the
\* iteration raises.
members(v, found, format, suffix) ==
    CASE format = "json" ->
           IF v.ok /\ v.kind = "dict"
           THEN [ok |-> TRUE, val |-> v.val]
           ELSE [ok |-> FALSE]
      [] format = "jsonarr" ->
           IF v.ok
           THEN [ok |-> TRUE,
                 val |-> [ k \in 1..Len(v.val) |->
                             << <<"i", "t", "e", "m", "_", Digit(k - 1)>> \o suffix,
                                CASE v.kind = "list" -> v.val[k]
                                  [] v.kind = "dict" -> v.val[k][1]
                                  [] v.kind = "str" -> << v.val[k] >> >> ]]
           ELSE [ok |-> FALSE]
      [] format \in {"xml", "xmlish"} ->
           [ok |-> TRUE,
            val |-> [ k \in 1..Len(found) |->
                        << replace(found[k].tag, "_", "."),
                           tag_content(found[k].body, format) >> ]]

\* The items and the warnings of parse_input for the lines loaded (jsonl)
\* or for the members m of the container (the other formats), and the type
\* of each item: a jsonl line is appended as whatever json.loads made of it.
parsed(loaded, m, iformat) ==
    LET good == { k \in 1..Len(loaded) : loaded[k].ok }
        bad == { k \in 1..Len(loaded) : ~loaded[k].ok }
    IN  IF iformat = "jsonl"
        THEN [items |-> [ n \in 1..Cardinality(good) |-> loaded[Nth(good, n)].val ],
              kinds |-> [ n \in 1..Cardinality(good) |-> loaded[Nth(good, n)].kind ],
              warnings |-> [ n \in 1..Cardinality(bad) |-> <<"parse", Nth(bad, n)>> ]]
        ELSE IF m.ok
        THEN [items |-> [ k \in 1..Len(m.val) |-> item_dict(m.val[k][1], m.val[k][2]) ],
              kinds |-> [ k \in 1..Len(m.val) |-> "dict" ],
              warnings |-> <<>>]
        ELSE [items |-> <<>>, kinds |-> <<>>, warnings |-> << <<"parse", 0>> >>]

\* parse_input(input_file, iformat) for the text of the file: the items and
\* the warnings.
parse_input(text, iformat) ==
    parsed(IF iformat = "jsonl" THEN loaded_lines(strip(text)) ELSE <<>>,
           IF iformat = "jsonl" THEN [ok |-> FALSE]
           ELSE members(IF iformat \in {"json", "jsonarr"}
                        THEN json_loads(strip(text)) ELSE JSONError,
                        IF iformat \in {"xml", "xmlish"}
                        THEN findall(strip(text), 1, <<>>) ELSE <<>>,
                        iformat,
                        <<>>),
           iformat)

\* Mutant: a file that exists is left as it is.
extract_single_file_keep(st, path, content, basename, basedir, faulty) ==
    LET output_path == IF basename THEN name(path)
                       ELSE IF basedir /= <<>> /\ (path = <<>> \/ Head(path) /= "/")
                       THEN basedir \o <<"/">> \o path
                       ELSE path
    IN  IF output_path \in faulty
        THEN [ok |-> FALSE]
        ELSE [ok |-> TRUE,
              st |-> [st EXCEPT
                        !.disk = [ f \in DOMAIN @ \cup {output_path} |->
                                     IF f \in DOMAIN @ THEN @[f] ELSE content ],
                        !.out = echo(@, <<"Extracted: ">> \o output_path),
                        !.opened = Append(@, <<"w", output_path>>)]]

\* extract_single_file(path, content, basename, basedir) on the state st of
\* an extraction: the disk, standard output and the files opened. The
\* result has ok FALSE when the output file cannot be opened for writing.
extract_single_file(st, path, content, basename, basedir, faulty) ==
    LET output_path == IF basename THEN name(path)
                       ELSE IF basedir /= <<>> /\ (path = <<>> \/ Head(path) /= "/")
                       THEN basedir \o <<"/">> \o path
                       ELSE path
    IN  IF output_path \in faulty
        THEN [ok |-> FALSE]
        ELSE [ok |-> TRUE,
              st |-> [st EXCEPT
                        !.disk = [ f \in DOMAIN @ \cup {output_path} |->
                                     IF f = output_path THEN content ELSE @[f] ],
                        !.out = echo(@, <<"Extracted: ">> \o output_path),
                        !.opened = Append(@, <<"w", output_path>>)]]

\* The loop over the entries of a container. An entry that is not ok (a
\* line that json.loads rejects, or that has no path or no content) and an
\* entry whose file cannot be written raise; the exception is caught inside
\* the loop (guarded) or around it, which ends the loop.
RECURSIVE extract_entries(_, _, _, _, _, _)
extract_entries(st, entries, guarded, basename, basedir, faulty) ==
    LET e == Head(entries)
        r == IF e.ok
             THEN extract_single_file(st, e.path, e.content, basename, basedir, faulty)
             ELSE [ok |-> FALSE]
        warned == [st EXCEPT !.warnings = Append(@, <<"process", e.at>>)]
    IN  IF entries = <<>> THEN st
        ELSE IF r.ok
        THEN extract_entries(r.st, Tail(entries), guarded, basename, basedir, faulty)
        ELSE IF guarded
        THEN extract_entries(warned, Tail(entries), guarded, basename, basedir, faulty)
        ELSE warned

Lookup(d, key) == d[CHOOSE j \in 1..Len(d) : d[j][1] = key][2]

HasKey(d, key) == \E j \in 1..Len(d) : d[j][1] = key

\* The entries of the lines loaded from a jsonl container: ok when the line
\* is a dict with a path and a content.
line_entries(loaded) ==
    [ k \in 1..Len(loaded) |->
        IF loaded[k].ok /\ loaded[k].kind = "dict"
           /\ HasKey(loaded[k].val, K_PATH) /\ HasKey(loaded[k].val, K_CONTENT)
        THEN [ok |-> TRUE, at |-> k,
              path |-> Lookup(loaded[k].val, K_PATH),
              content |-> Lookup(loaded[k].val, K_CONTENT)]
        ELSE [ok |-> FALSE, at |-> k] ]

\* The entries of the members m of a container decoded as a whole.
member_entries(m) ==
    [ k \in 1..Len(m.val) |->
        [ok |-> TRUE, at |-> k, path |-> m.val[k][1], content |-> m.val[k][2]] ]

\* The extraction of the members m: the one try statement is around the
\* decoding and the loop.
extract_members(st, m, basename, basedir, faulty) ==
    IF m.ok
    THEN extract_entries(st, member_entries(m), FALSE, basename, basedir, faulty)
    ELSE [st EXCEPT !.warnings = << <<"process", 0>> >>]

\* extract_archive(file_obj, basename, basedir, format) for the text that
\* file_obj holds, from the state st: the disk, standard output and the
\* warnings. For jsonl each line has its own try statement.
extract_archive(st, text, basename, basedir, format, faulty) ==
    IF format = "jsonl"
    THEN extract_entries(st, line_entries(loaded_lines(strip(text))), TRUE,
                         basename, basedir, faulty)
    ELSE extract_members(
             st,
             members(IF format \in {"json", "jsonarr"}
                     THEN json_loads(strip(text)) ELSE JSONError,
                     IF format \in {"xml", "xmlish"}
                     THEN findall(strip(text), 1, <<>>) ELSE <<>>,
                     format,
                     <<".", "t", "x", "t">>),
             basename, basedir, faulty)

(***************************************************************************)
(* State                                                                   *)
(***************************************************************************)
VARIABLES
    items,            \* the decoded input container
    prompt_template,  \* the template, as a sequence of tokens
    concurrency,      \* max_workers of the pool
    branches,
    include_input,
    model,            \* whether llm.get_model finds the model of the run
    oformat,          \* read by output_results only: drawn at that call
    output,           \* read by output_results only: drawn at that call
    pc,               \* position of the main thread in map_items
    expanded_items,
    tstate,           \* per task: its position in the pool
    future,           \* per task: the result its future holds
    num_threads,      \* worker threads the pool has started
    finished,         \* as_completed: the futures complete at the call
    waiter,           \* as_completed: futures completed since, in order
    results,
    stdout,
    file,             \* content of the output file
    outcome,          \* history: per task, how its backend call ended
    completed,        \* history: tasks in the order their futures completed
    collected,        \* history: tasks in the order the loop consumed them
    calls,            \* history: per task, the calls of model_obj.prompt
    cmd,              \* the options of the command line
    iformat,
    container,        \* the text of the container given to map or to extract
    disk,             \* the files, by path
    faulty,           \* the paths that cannot be opened
    stderr,           \* the warnings
    opened,           \* history: the files opened, with the mode
    show_progress,    \* sys.stderr.isatty()
    bar               \* the position of the progress bar

vars == << items, prompt_template, concurrency, branches, include_input,
           model, oformat, output, pc, expanded_items, tstate, future,
           num_threads, finished, waiter, results, stdout, file, outcome,
           completed, collected, calls, cmd, iformat, container, disk,
           faulty, stderr, opened, show_progress, bar >>

params == << items, prompt_template, concurrency, branches, include_input,
             model, oformat, output >>

sinks == << stdout, file >>

history == << outcome, completed, collected, calls >>

shell == << cmd, iformat, container, disk, faulty, stderr, opened,
           show_progress, bar >>

N == Len(expanded_items)

Tasks == 1..N

TasksIn(S) == { i \in Tasks : tstate[i] \in S }

Busy == TasksIn({"dequeued", "running", "hung"})

InFlight == TasksIn({"running", "hung"})

Queued == TasksIn({"queued"})

\* Mutant: the pool is one worker too large.
max_workers_plus_one == concurrency + 1

max_workers == concurrency

(***************************************************************************)
(* Init: map_items has been called and the container decoded               *)
(***************************************************************************)
\* No command line: map_items is called directly.
NoShell ==
    /\ cmd = NoValue
    /\ iformat = NoValue
    /\ container = <<>>
    /\ disk = <<>>
    /\ faulty = {}
    /\ stderr = <<>>
    /\ opened = <<>>

\* Nothing of a run has happened yet.
NoRun ==
    /\ bar = 0
    /\ output = NoValue
    /\ expanded_items = <<>>
    /\ tstate = <<>>
    /\ future = <<>>
    /\ num_threads = 0
    /\ finished = {}
    /\ waiter = <<>>
    /\ results = <<>>
    /\ stdout = <<>>
    /\ file = PriorFile
    /\ outcome = <<>>
    /\ completed = <<>>
    /\ collected = <<>>
    /\ calls = <<>>

\* map_items has decoded its container and is about to expand it.
Fresh ==
    /\ oformat = NoValue
    /\ pc = "expand"
    /\ NoRun
    /\ NoShell
    /\ show_progress = FALSE

\* The runs whose model is drawn from ms and whose include_input from incl.
RunInit(ms, incl) ==
    /\ items \in Containers(MaxTasks)
    /\ branches \in 1..MaxBranches
    /\ branches * Len(items) <= MaxTasks
    /\ prompt_template \in Templates
    /\ concurrency \in 0..MaxConcurrency
    /\ include_input \in incl
    /\ model \in ms
    /\ Fresh

\* The runs of a registered model.
Init == RunInit({"known"}, BOOLEAN)

\* The runs of any model, registered or not, without include_input.
InitLookup == RunInit(Models, {FALSE})

(***************************************************************************)
(* The main thread                                                         *)
(***************************************************************************)
Expand ==
    /\ pc = "expand"
    /\ LET e == expand_branches(items, branches)
       IN  /\ items' = e.items
           /\ expanded_items' = e.expanded
    /\ tstate' = [ i \in 1..Len(expanded_items') |-> "new" ]
    /\ future' = [ i \in 1..Len(expanded_items') |-> NoValue ]
    /\ outcome' = [ i \in 1..Len(expanded_items') |-> NoValue ]
    /\ calls' = [ i \in 1..Len(expanded_items') |-> 0 ]
    /\ pc' = "pool"
    /\ UNCHANGED << shell, prompt_template, concurrency, branches, include_input,
                    model, oformat, output, num_threads, finished, waiter,
                    results, sinks, completed, collected >>

\* Mutant: a pool is created whatever max_workers is.
CreatePool_unchecked ==
    /\ pc = "pool"
    /\ pc' = "submit"
    /\ UNCHANGED << shell, params, expanded_items, tstate, future, num_threads,
                    finished, waiter, results, sinks, history >>

\* ThreadPoolExecutor(max_workers=concurrency) raises ValueError for a
\* max_workers that is not positive.
CreatePool ==
    /\ pc = "pool"
    /\ pc' = IF max_workers <= 0 THEN "raised" ELSE "submit"
    /\ UNCHANGED << shell, params, expanded_items, tstate, future, num_threads,
                    finished, waiter, results, sinks, history >>

NextToSubmit == Cardinality(Tasks \ TasksIn({"new"})) + 1

IdleThreads == num_threads - Cardinality(Busy)

\* executor.submit: the work item is queued, and a thread is started when
\* fewer than max_workers exist and none is known to be idle.
Submit ==
    /\ pc = "submit"
    /\ NextToSubmit <= N
    /\ tstate' = [tstate EXCEPT ![NextToSubmit] = "queued"]
    /\ \E spawn \in BOOLEAN :
         /\ spawn => num_threads < max_workers
         /\ ~spawn => (IdleThreads > 0 \/ num_threads >= max_workers)
         /\ num_threads' = IF spawn THEN num_threads + 1 ELSE num_threads
    /\ UNCHANGED << shell, params, pc, expanded_items, future, finished, waiter,
                    results, sinks, history >>

\* as_completed(future_to_item): the futures already complete are set aside,
\* a waiter is installed on the others.
AsCompleted ==
    /\ pc = "submit"
    /\ NextToSubmit > N
    /\ finished' = TasksIn({"done"})
    /\ waiter' = <<>>
    /\ pc' = "collect"
    /\ UNCHANGED << shell, params, expanded_items, tstate, future, num_threads,
                    results, sinks, history >>

\* Mutant: the waiter's list is consumed in no particular order.
Yieldable_unordered ==
    IF finished \cap TasksIn({"done"}) /= {}
    THEN finished \cap TasksIn({"done"})
    ELSE { waiter[k] : k \in 1..Len(waiter) }

\* The futures as_completed may yield next: any of those set aside at the
\* call (a set, iterated in no particular order), and once these are
\* exhausted the head of the waiter's list.
Yieldable ==
    IF finished \cap TasksIn({"done"}) /= {}
    THEN finished \cap TasksIn({"done"})
    ELSE IF waiter /= <<>> THEN {Head(waiter)} ELSE {}

\* Mutant: an append that loses every entry after the first.
results_append_lossy(res, r) == IF res = <<>> THEN Append(res, r) ELSE res

\* results.append(result)
results_append(res, r) == Append(res, r)

\* Mutant: the bar is moved by two for each result.
CollectWithBar_twice ==
    /\ pc = "collect"
    /\ show_progress
    /\ \E i \in Yieldable :
         /\ ~holds_exception(future[i])
         /\ results' = results_append(results, future[i])
         /\ collected' = Append(collected, i)
         /\ tstate' = [tstate EXCEPT ![i] = "yielded"]
         /\ waiter' = SelectSeq(waiter, LAMBDA j : j /= i)
    /\ bar' = bar + 2
    /\ UNCHANGED << cmd, iformat, container, disk, faulty, stderr, opened,
                    show_progress, params, pc, expanded_items, future,
                    num_threads, finished, sinks, outcome, completed, calls >>

\* One turn of the loop inside click.progressbar: result = future.result();
\* results.append(result); bar.update(1), for a future that holds a result.
CollectWithBar ==
    /\ pc = "collect"
    /\ show_progress
    /\ \E i \in Yieldable :
         /\ ~holds_exception(future[i])
         /\ results' = results_append(results, future[i])
         /\ collected' = Append(collected, i)
         /\ tstate' = [tstate EXCEPT ![i] = "yielded"]
         /\ waiter' = SelectSeq(waiter, LAMBDA j : j /= i)
    /\ bar' = bar + 1
    /\ UNCHANGED << cmd, iformat, container, disk, faulty, stderr, opened,
                    show_progress, params, pc, expanded_items, future,
                    num_threads, finished, sinks, outcome, completed, calls >>

\* One turn of the loop without a progress bar: result = future.result();
\* results.append(result), for a future that holds a result.
Collect ==
    /\ pc = "collect"
    /\ ~show_progress
    /\ \E i \in Yieldable :
         /\ ~holds_exception(future[i])
         /\ results' = results_append(results, future[i])
         /\ collected' = Append(collected, i)
         /\ tstate' = [tstate EXCEPT ![i] = "yielded"]
         /\ waiter' = SelectSeq(waiter, LAMBDA j : j /= i)
    /\ UNCHANGED << shell, params, pc, expanded_items, future, num_threads,
                    finished, sinks, outcome, completed, calls >>

\* Mutant: the loop is left after the first future.
LoopExhausted_first == Tasks = {} \/ TasksIn({"yielded"}) /= {}

\* as_completed is exhausted when it has yielded every future.
LoopExhausted == TasksIn({"yielded"}) = Tasks

\* Mutant: hung calls are given up on and the pool is left without joining.
Shutdown_no_wait ==
    /\ pc = "collect"
    /\ TasksIn({"yielded", "hung"}) = Tasks
    /\ num_threads' = 0
    /\ pc' = "output"
    /\ UNCHANGED << shell, params, expanded_items, tstate, future, finished, waiter,
                    results, sinks, history >>

\* Leaving the with block: executor.shutdown(wait=True) joins the workers.
Shutdown ==
    /\ pc = "collect"
    /\ LoopExhausted
    /\ Busy = {}
    /\ num_threads' = 0
    /\ pc' = "output"
    /\ UNCHANGED << shell, params, expanded_items, tstate, future, finished, waiter,
                    results, sinks, history >>

\* output_results(results, output, oformat)
OutputResults ==
    /\ pc = "output"
    /\ \E fmt \in (IF oformat = NoValue THEN Formats ELSE {oformat}),
          out \in Outputs :
         /\ oformat' = fmt
         /\ output' = out
         /\ IF out = "None"
            THEN /\ stdout' = output_to_stdout(stdout, results, fmt)
                 /\ UNCHANGED file
            ELSE /\ file' = output_to_file(file, results, fmt)
                 /\ UNCHANGED stdout
    /\ pc' = "done"
    /\ UNCHANGED << shell, items, prompt_template, concurrency, branches,
                    include_input, model, expanded_items, tstate, future,
                    num_threads, finished, waiter, results, history >>

(***************************************************************************)
(* The worker threads                                                      *)
(***************************************************************************)
Min(S) == CHOOSE x \in S : \A y \in S : x <= y

Max(S) == CHOOSE x \in S : \A y \in S : x >= y

\* Mutant: a last in, first out work queue.
NextWorkItem_lifo == Max(Queued)

\* The work queue is first in, first out.
NextWorkItem == Min(Queued)

\* work_queue.get(): an idle worker takes the oldest queued work item.
Dequeue ==
    /\ IdleThreads > 0
    /\ Queued /= {}
    /\ tstate' = [tstate EXCEPT ![NextWorkItem] = "dequeued"]
    /\ UNCHANGED << shell, params, pc, expanded_items, future, num_threads, finished,
                    waiter, results, sinks, history >>

\* work_item.run(): process_item is entered for a dict, whose get succeeds
\* with or without the keys. llm.get_model either finds the
\* model, and model_obj.prompt is called, or raises, and process_item
\* returns its failure result at once, completing the future.
Start(i) ==
    /\ tstate[i] = "dequeued"
    /\ is_dict(expanded_items[i])
    /\ IF model = "known"
       THEN /\ tstate' = [tstate EXCEPT ![i] = "running"]
            /\ calls' = [calls EXCEPT ![i] = @ + 1]
            /\ UNCHANGED << future, outcome, completed, waiter >>
       ELSE /\ tstate' = [tstate EXCEPT ![i] = "done"]
            /\ future' = [future EXCEPT ![i] =
                            lookup_failure_result(expanded_items[i],
                                                  include_input)]
            /\ outcome' = [outcome EXCEPT ![i] = "nomodel"]
            /\ completed' = Append(completed, i)
            /\ waiter' = IF pc = "collect" THEN Append(waiter, i) ELSE waiter
            /\ UNCHANGED calls
    /\ UNCHANGED << shell, params, pc, expanded_items, num_threads, finished,
                    results, sinks, collected >>

\* Mutant: a call that raised is made once more.
Return_retry(i) ==
    /\ tstate[i] = "running"
    /\ \E oc \in {"ok", "err"} :
         IF oc = "err" /\ calls[i] < 2
         THEN /\ calls' = [calls EXCEPT ![i] = @ + 1]
              /\ UNCHANGED << tstate, future, outcome, completed, waiter >>
         ELSE /\ tstate' = [tstate EXCEPT ![i] = "done"]
              /\ future' = [future EXCEPT ![i] =
                              process_item(expanded_items[i], prompt_template,
                                           include_input, oc)]
              /\ outcome' = [outcome EXCEPT ![i] = oc]
              /\ completed' = Append(completed, i)
              /\ waiter' = IF pc = "collect" THEN Append(waiter, i) ELSE waiter
              /\ UNCHANGED calls
    /\ UNCHANGED << shell, params, pc, expanded_items, num_threads, finished,
                    results, sinks, collected >>

\* The backend call returns ("ok") or raises ("err"); process_item builds
\* its result either way and the worker completes the future with it
\* (future.set_result), which tells an installed waiter. A call that raised
\* is not made again.
Return(i) ==
    /\ tstate[i] = "running"
    /\ tstate' = [tstate EXCEPT ![i] = "done"]
    /\ \E oc \in {"ok", "err"} :
         /\ future' = [future EXCEPT ![i] =
                         process_item(expanded_items[i], prompt_template,
                                      include_input, oc)]
         /\ outcome' = [outcome EXCEPT ![i] = oc]
    /\ completed' = Append(completed, i)
    /\ waiter' = IF pc = "collect" THEN Append(waiter, i) ELSE waiter
    /\ UNCHANGED << shell, params, pc, expanded_items, num_threads, finished,
                    results, sinks, collected, calls >>

\* The backend call never returns: nothing in map.py bounds its duration.
Hang(i) ==
    /\ tstate[i] = "running"
    /\ tstate' = [tstate EXCEPT ![i] = "hung"]
    /\ UNCHANGED << shell, params, pc, expanded_items, future, num_threads, finished,
                    waiter, results, sinks, history >>

Next ==
    \/ Expand
    \/ CreatePool
    \/ Submit
    \/ AsCompleted
    \/ Collect
    \/ Shutdown
    \/ OutputResults
    \/ Dequeue
    \/ \E i \in Tasks : Start(i)
    \/ \E i \in Tasks : Return(i)
    \/ \E i \in Tasks : Hang(i)

Spec == Init /\ [][Next]_vars

SpecLookup == InitLookup /\ [][Next]_vars

(***************************************************************************)
(* The runs with and without a progress bar: standard error is a terminal  *)
(* or it is not                                                            *)
(***************************************************************************)
InitProgress ==
    /\ items \in Containers(MaxTasks)
    /\ branches = 1
    /\ prompt_template \in Templates
    /\ concurrency \in 1..MaxConcurrency
    /\ include_input = FALSE
    /\ model = "known"
    /\ oformat = NoValue
    /\ pc = "expand"
    /\ NoRun
    /\ NoShell
    /\ show_progress \in BOOLEAN

NextProgress == Next \/ CollectWithBar

SpecProgress == InitProgress /\ [][NextProgress]_vars

(***************************************************************************)
(* The map command: the options are validated, map_items decodes the       *)
(* container and the run follows                                           *)
(***************************************************************************)
\* Mutant: the format option does not override the two others.
effective_ignoring_format(format, given) == given

\* if format: iformat = oformat = format
effective(format, given) == IF format /= NoValue THEN format ELSE given

\* map_command, up to its call of map_items.
MapCommand ==
    /\ pc = "map"
    /\ IF cmd.input /\ effective(cmd.format, cmd.oformat) \in {"json", "jsonarr"}
       THEN /\ pc' = "click_error"
            /\ UNCHANGED << include_input, iformat, oformat >>
       ELSE /\ pc' = "parse"
            /\ include_input' = cmd.input
            /\ iformat' = effective(cmd.format, cmd.iformat)
            /\ oformat' = effective(cmd.format, cmd.oformat)
    /\ UNCHANGED << items, prompt_template, concurrency, branches, model,
                    output, expanded_items, tstate, future, num_threads,
                    finished, waiter, results, sinks, history, cmd, container,
                    disk, faulty, stderr, opened, show_progress, bar >>

\* A decoded value as an item of the run: a dict by its keys and values as
\* strings, a list or a string by its type alone.
as_item(d, kind) ==
    IF kind = "dict"
    THEN [ key \in { Join(d[j][1]) : j \in 1..Len(d) } |->
             Join(Lookup(d, CHOOSE k \in { d[j][1] : j \in 1..Len(d) } : Join(k) = key)) ]
    ELSE [nondict |-> kind]

\* items = parse_input(jsonl_file, iformat)
ParseInput ==
    /\ pc = "parse"
    /\ LET r == parse_input(container, iformat)
       IN  /\ items' = [ k \in 1..Len(r.items) |-> as_item(r.items[k], r.kinds[k]) ]
           /\ stderr' = stderr \o r.warnings
    /\ opened' = Append(opened, <<"r", "jsonl_file">>)
    /\ pc' = "expand"
    /\ UNCHANGED << prompt_template, concurrency, branches, include_input,
                    model, oformat, output, expanded_items, tstate, future,
                    num_threads, finished, waiter, results, sinks, history,
                    cmd, iformat, container, disk, faulty, show_progress,
                    bar >>

\* The options of map that bear on the formats.
MapOptions ==
    [command : {"map"}, input : BOOLEAN, format : Formats \cup {NoValue},
     iformat : Formats, oformat : Formats]

\* Two items, as a jsonl container and as a json container.
MapContainers ==
    LET pairs == << << <<"a">>, <<"x">> >>, << <<"b">>, <<"y">> >> >>
    IN  { create_archive_output(<<>>, pairs, f) : f \in {"jsonl", "json"} }

InitCli ==
    /\ cmd \in MapOptions
    /\ container \in MapContainers
    /\ pc = "map"
    /\ items = <<>>
    /\ branches = 1
    /\ prompt_template \in Templates
    /\ concurrency = MaxConcurrency
    /\ include_input = NoValue
    /\ model = "known"
    /\ oformat = NoValue
    /\ iformat = NoValue
    /\ disk = <<>>
    /\ faulty = {}
    /\ stderr = <<>>
    /\ opened = <<>>
    /\ show_progress = FALSE
    /\ NoRun

NextCli == MapCommand \/ ParseInput \/ Next

SpecCli == InitCli /\ [][NextCli]_vars

(***************************************************************************)
(* Runs from the text of a jsonl file, whose lines may decode to values    *)
(* that are not dicts                                                      *)
(***************************************************************************)
\* work_item.run() for an item without the method get: item.get raises
\* AttributeError in the try block of process_item, before llm.get_model,
\* and item.get raises it again in the except block, so process_item
\* raises and the worker completes the future with the exception
\* (future.set_exception).
Raise(i) ==
    /\ tstate[i] = "dequeued"
    /\ ~is_dict(expanded_items[i])
    /\ tstate' = [tstate EXCEPT ![i] = "done"]
    /\ future' = [future EXCEPT ![i] = [raised |-> "AttributeError"]]
    /\ outcome' = [outcome EXCEPT ![i] = "raised"]
    /\ completed' = Append(completed, i)
    /\ waiter' = IF pc = "collect" THEN Append(waiter, i) ELSE waiter
    /\ UNCHANGED << shell, params, pc, expanded_items, num_threads, finished,
                    results, sinks, collected, calls >>

\* One turn of the loop for a future that holds an exception:
\* future.result() raises it in the main thread, which leaves the loop.
Reraise ==
    /\ pc = "collect"
    /\ ~show_progress
    /\ \E i \in Yieldable :
         /\ holds_exception(future[i])
         /\ collected' = Append(collected, i)
         /\ tstate' = [tstate EXCEPT ![i] = "yielded"]
         /\ waiter' = SelectSeq(waiter, LAMBDA j : j /= i)
    /\ pc' = "unwind"
    /\ UNCHANGED << shell, params, expanded_items, future, num_threads,
                    finished, results, sinks, outcome, completed, calls >>

\* The exception leaves the with block: executor.shutdown(wait=True) lets
\* the workers finish the queue and joins them, and map_items raises
\* without reaching output_results.
Unwind ==
    /\ pc = "unwind"
    /\ Busy = {}
    /\ Queued = {}
    /\ num_threads' = 0
    /\ pc' = "raised"
    /\ UNCHANGED << shell, params, expanded_items, tstate, future, finished,
                    waiter, results, sinks, history >>

\* map_items is called on a jsonl file of at most MaxInputLines lines: dicts
\* with both keys, with one of them, a list, a string, and a line that is
\* not JSON.
InitInput ==
    /\ container \in
         { ConcatWith(ls, <<"\n">>) :
             ls \in UNION { [1..k ->
                              { json_dumps_dict(item_dict(<<"b">>, <<"x">>)),
                                json_dumps_dict(<< <<K_PATH, <<"c">> >> >>),
                                json_dumps_dict(<< <<K_CONTENT, <<"y">> >> >>),
                                json_dumps_list(<< <<"x">> >>),
                                json_dumps_str(<<"x">>),
                                <<"o", "o", "p", "s">> }] :
                            k \in 0..MaxInputLines } }
    /\ iformat = "jsonl"
    /\ pc = "parse"
    /\ items = <<>>
    /\ branches = 1
    /\ prompt_template \in Templates
    /\ concurrency \in 1..MaxConcurrency
    /\ include_input \in BOOLEAN
    /\ model = "known"
    /\ oformat = NoValue
    /\ cmd = NoValue
    /\ disk = <<>>
    /\ faulty = {}
    /\ stderr = <<>>
    /\ opened = <<>>
    /\ show_progress = FALSE
    /\ NoRun

NextInput ==
    \/ ParseInput
    \/ Next
    \/ \E i \in Tasks : Raise(i)
    \/ Reraise
    \/ Unwind

SpecInput == InitInput /\ [][NextInput]_vars

\* The steps of map_items once the file is decoded, in the runs in which
\* every backend call returns or raises: those of the main thread and those
\* of the workers, without Hang.
Run ==
    \/ Expand
    \/ CreatePool
    \/ Submit
    \/ AsCompleted
    \/ Collect
    \/ Reraise
    \/ Shutdown
    \/ Unwind
    \/ OutputResults
    \/ Dequeue
    \/ \E i \in Tasks : Start(i)
    \/ \E i \in Tasks : Raise(i)
    \/ \E i \in Tasks : Return(i)

NextFair == ParseInput \/ Run

\* The threads are scheduled and the backend answers: a step of the run
\* that stays possible is eventually taken.
SpecFair == InitInput /\ [][NextFair]_vars /\ WF_vars(Run)

(***************************************************************************)
(* The prompt on its own: runs of one item, for every template of at most  *)
(* MaxTemplateLen tokens                                                   *)
(***************************************************************************)
InitPrompt ==
    /\ items \in { << [path |-> "a", content |-> c] >> : c \in PromptContents }
    /\ branches = 1
    /\ prompt_template \in TemplatesUpTo(MaxTemplateLen)
    /\ concurrency = 1
    /\ include_input = FALSE
    /\ model = "known"
    /\ Fresh

SpecPrompt == InitPrompt /\ [][Next]_vars

(***************************************************************************)
(* expand_branches on its own: every container, every branch count up to   *)
(* MaxExpandBranches                                                       *)
(***************************************************************************)
InitExpand ==
    /\ items \in Containers(MaxTasks)
    /\ branches \in 1..MaxExpandBranches
    /\ prompt_template \in Templates
    /\ concurrency = 1
    /\ include_input = FALSE
    /\ model = "known"
    /\ Fresh

NextExpand == Expand

SpecExpand == InitExpand /\ [][NextExpand]_vars

(***************************************************************************)
(* The archive command: the files of a small directory tree are bundled,   *)
(* a container is extracted, and the container that create printed is      *)
(* stored in a file and decoded by parse_input                             *)
(***************************************************************************)
ArchiveFormats == {"jsonl", "json", "jsonarr", "xml", "xmlish"}

\* The directory tree: /d/a.t and /d/s/a.t have the same name, /d/c holds
\* the closing tag of its own name, /e/b is outside /d, /d/x is unreadable.
F_A == <<"/", "d", "/", "a", ".", "t">>

F_SA == <<"/", "d", "/", "s", "/", "a", ".", "t">>

F_C == <<"/", "d", "/", "c">>

F_B == <<"/", "e", "/", "b">>

F_X == <<"/", "d", "/", "x">>

Files == {F_A, F_SA, F_C, F_B, F_X}

Tree ==
    [ f \in Files |->
        CASE f = F_A -> <<"x", "\"", "\n", "<">>
          [] f = F_SA -> <<"\n", "y">>
          [] f = F_C -> <<"<", "/", "c", ">">>
          [] f = F_B -> <<>>
          [] f = F_X -> <<"z">> ]

Unreadable == {F_X}

BaseDirs == {<<>>, <<"/", "d">>}

FileLists(n) == UNION { [1..k -> Files] : k \in 0..n }

\* The items of the containers given to extract, and the destinations that
\* cannot be written.
Pairs ==
    { << <<"b">>, <<"x", "\"", "\n", "<">> >>,
      << <<"c">>, <<"y">> >>,
      << <<"a", ".", "t">>, <<>> >>,
      << <<"s", "/", "b">>, <<"z">> >>,
      << <<"/", "d", "/", "b">>, <<"w">> >> }

PairLists(n) == UNION { [1..k -> Pairs] : k \in 0..n }

OutDirs == {<<>>, <<"o">>}

Unwritable ==
    { <<"b">>, <<"o", "/", "b">>,
      <<"i", "t", "e", "m", "_", "0", ".", "t", "x", "t">>,
      <<"o", "/", "i", "t", "e", "m", "_", "0", ".", "t", "x", "t">> }

\* The container that create prints for the items pairs.
Encoded(pairs, format) ==
    IF format \in {"json", "jsonarr"}
    THEN create_archive_output(<<>>, pairs, format)
    ELSE ConcatWith([ k \in 1..Len(pairs) |->
                        echo(<<>>, archive_record(pairs[k][1], pairs[k][2],
                                                  format)) ],
                    <<>>)

\* The lines of a line-delimited container: two records, a record cut
\* short, a bare word and a blank line.
GoodPairs == { << <<"b">>, <<"x">> >>, << <<"c">>, <<"y", "\n">> >> }

GoodLines == { json_dumps_dict(item_dict(p[1], p[2])) : p \in GoodPairs }

BadLines ==
    { <<"{", "\"", "path", "\"", ":", " ", "\"", "b", "\"">>,
      <<"o", "o", "p", "s">> }

Lines == GoodLines \cup BadLines \cup { <<" ">> }

LineContainers(n) ==
    { ConcatWith(ls, <<"\n">>) : ls \in UNION { [1..k -> Lines] : k \in 0..n } }

\* The file that holds the container of an extraction.
ARC == <<"a", "r", "c">>

ArchiveOptions(files) ==
    [command : {"archive"}, create : BOOLEAN, extract : BOOLEAN,
     basename : BOOLEAN, basedir : BaseDirs \cup OutDirs,
     format : ArchiveFormats, files : files]

\* The parts of the state that the archive command does not use.
Idle ==
    /\ items = <<>>
    /\ prompt_template = <<>>
    /\ concurrency = 1
    /\ branches = 1
    /\ include_input = FALSE
    /\ model = "known"
    /\ oformat = NoValue
    /\ stderr = <<>>
    /\ opened = <<>>
    /\ show_progress = FALSE
    /\ NoRun

InitArchive ==
    /\ Idle
    /\ \/ /\ cmd \in ArchiveOptions(FileLists(MaxFiles))
          /\ ~cmd.extract
          /\ cmd.basedir \in BaseDirs
          /\ pc = "archive"
          /\ iformat = NoValue
          /\ container = <<>>
          /\ disk = Tree
          /\ faulty = Unreadable
       \/ /\ cmd \in ArchiveOptions({<<>>, <<ARC>>})
          /\ cmd.extract
          /\ cmd.basedir \in OutDirs
          /\ pc = "archive"
          /\ iformat = NoValue
          /\ container \in { Encoded(ps, cmd.format) : ps \in PairLists(MaxFiles) }
                             \cup (IF cmd.format = "jsonl"
                                   THEN LineContainers(MaxLines) ELSE {})
          /\ disk = <<>>
          /\ faulty \in {{}, Unwritable}
       \/ /\ cmd = [command |-> "map"]
          /\ pc = "parse"
          /\ iformat = "jsonl"
          /\ container \in LineContainers(MaxLines)
          /\ disk = <<>>
          /\ faulty = {}

\* Mutant: create is tested first.
archive_branch_create_first(create, extract) ==
    IF create THEN "create" ELSE IF extract THEN "extract" ELSE "create"

\* The branch that archive takes.
archive_branch(create, extract) ==
    IF extract /\ create THEN "click_error"
    ELSE IF extract THEN "extract"
    ELSE "create"

\* The state when create_archive has returned c.
Created(c) ==
    /\ pc' = "created"
    /\ stdout' = c.out
    /\ stderr' = c.warnings
    /\ opened' = c.opened
    /\ UNCHANGED disk

\* The state when extract_archive has returned x.
Extracted(x) ==
    /\ pc' = "extracted"
    /\ stdout' = x.out
    /\ stderr' = x.warnings
    /\ opened' = x.opened
    /\ disk' = x.disk

\* archive(files, create, extract, basename, basedir, format)
Archive ==
    /\ pc = "archive"
    /\ IF archive_branch(cmd.create, cmd.extract) = "click_error"
       THEN /\ pc' = "click_error"
            /\ UNCHANGED << stdout, stderr, opened, disk >>
       ELSE IF archive_branch(cmd.create, cmd.extract) = "extract"
       THEN Extracted(extract_archive(
                [disk |-> disk, out |-> <<>>, warnings |-> <<>>,
                 opened |-> IF cmd.files = <<>> THEN <<>>
                            ELSE << <<"r", cmd.files[1]>> >>],
                container, cmd.basename, cmd.basedir, cmd.format, faulty))
       ELSE Created(create_archive(cmd.files, cmd.basename, cmd.basedir,
                                   cmd.format, disk, faulty))
    /\ UNCHANGED << params, expanded_items, tstate, future, num_threads,
                    finished, waiter, results, file, history, cmd, iformat,
                    container, faulty, show_progress, bar >>

\* What create printed is stored in a file, which is given to map_items
\* with the format it was created in.
Pipe ==
    /\ pc = "created"
    /\ pc' = "parse"
    /\ container' = stdout
    /\ iformat' = cmd.format
    /\ UNCHANGED << params, expanded_items, tstate, future, num_threads,
                    finished, waiter, results, sinks, history, cmd, disk,
                    faulty, stderr, opened, show_progress, bar >>

NextArchive == Archive \/ Pipe \/ ParseInput

SpecArchive == InitArchive /\ [][NextArchive]_vars

(***************************************************************************)
(* Vocabulary of the properties                                            *)
(***************************************************************************)
IsSuccess(r) == "content" \in DOMAIN r

IsFailure(r) == "error" \in DOMAIN r

Pos(seq, x) == CHOOSE k \in 1..Len(seq) : seq[k] = x

Submitted(i) == tstate[i] /= "new"

Taken(i) == tstate[i] \in {"dequeued", "running", "hung", "done", "yielded"}

Started(i) == tstate[i] \in {"running", "hung", "done", "yielded"}

\* The with block has been left: the collection loop is over and the pool
\* joined; map_items is at, or past, its call of output_results.
PoolLeft == pc \in {"output", "done"}

NothingWritten == stdout = <<>> /\ file = PriorFile

Failed == { i \in Tasks : outcome[i] = "err" }

Succeeded == { i \in Tasks : outcome[i] = "ok" }

ItemsWithPath(p) == { i \in Tasks : expanded_items[i].path = p }

ResultsWithPath(p) == { k \in 1..Len(results) : results[k].path = p }

PromptOf(i) == formatted_prompt(prompt_template, expanded_items[i].content)

\* The results in the order of the expanded items.
ResultsInItemOrder == [ i \in Tasks |-> future[i] ]

(***************************************************************************)
(* C1: the collected results are in one-to-one correspondence with the     *)
(* expanded items. At every point of the collection each result belongs to *)
(* one task consumed by the loop (none fabricated), no task is consumed    *)
(* twice (none duplicated) and every consumed task has its result in the   *)
(* list (none lost); from the end of the loop to the return of map_items   *)
(* there are exactly N results and every path occurs on as many results as *)
(* on expanded items.                                                      *)
(***************************************************************************)
C1_ResultsMatchItems ==
    /\ Len(results) = Len(collected)
    /\ \A k \in 1..Len(results) :
         /\ k <= Len(collected)
         /\ collected[k] \in Tasks
         /\ results[k] = future[collected[k]]
         /\ results[k].path = expanded_items[collected[k]].path
    /\ \A k1, k2 \in 1..Len(collected) :
         k1 /= k2 => collected[k1] /= collected[k2]
    /\ \A i \in TasksIn({"yielded"}) :
         \E k \in 1..Len(results) : k <= Len(collected) /\ collected[k] = i
    /\ PoolLeft =>
         /\ Len(results) = N
         /\ \A i \in Tasks :
              Cardinality(ResultsWithPath(expanded_items[i].path))
                = Cardinality(ItemsWithPath(expanded_items[i].path))

C1_Witness ==
    /\ pc = "done"
    /\ N = 3
    /\ concurrency = 2
    /\ Len(results) = 3
    /\ \E i, j \in Tasks : i /= j /\ expanded_items[i].path = expanded_items[j].path
    /\ collected /= <<1, 2, 3>>

(***************************************************************************)
(* C2: in every reachable state the number of backend calls in flight is   *)
(* at most concurrency.                                                    *)
(***************************************************************************)
C2_PoolBounded == Cardinality(InFlight) <= concurrency

C2_Witness ==
    /\ concurrency = 2
    /\ N = 3
    /\ Cardinality(InFlight) = 2
    /\ Queued /= {}

(***************************************************************************)
(* C3: when exactly one backend call failed and the others succeeded, map  *)
(* ends with N results, of which exactly one is a failure, carrying the    *)
(* failing item's path and the fault's message, and N-1 are successes.     *)
(***************************************************************************)
C3_FailureIsolated ==
    (PoolLeft /\ Cardinality(Failed) = 1) =>
        /\ Len(results) = N
        /\ Cardinality({ k \in 1..Len(results) : IsFailure(results[k]) }) = 1
        /\ Cardinality({ k \in 1..Len(results) :
                           IsSuccess(results[k]) /\ ~IsFailure(results[k]) }) = N - 1
        /\ \A k \in 1..Len(results) :
             IsFailure(results[k]) =>
                 /\ k <= Len(collected)
                 /\ collected[k] \in Failed
                 /\ results[k].path = expanded_items[collected[k]].path
                 /\ results[k].error = fault_message(PromptOf(collected[k]))

\* The failure came first: its siblings were queued or in flight then.
C3_Witness ==
    /\ pc = "done"
    /\ N = 3
    /\ Cardinality(Failed) = 1
    /\ completed[1] \in Failed
    /\ collected[1] \in Failed
    /\ Cardinality(Succeeded) = 2

(***************************************************************************)
(* C4: map is a complete barrier. Nothing is on standard output or in the  *)
(* output file, and encoding has not begun, before the collection loop has *)
(* consumed the result of every submitted task.                            *)
(***************************************************************************)
C4_BarrierBeforeOutput ==
    (~NothingWritten \/ PoolLeft) =>
        /\ \A i \in Tasks : tstate[i] = "yielded"
        /\ Len(results) = N

C4_Witness ==
    /\ pc = "done"
    /\ N = 3
    /\ concurrency = 2
    /\ ~NothingWritten

(***************************************************************************)
(* C5: once a backend call never returns, map_items never returns and      *)
(* writes nothing, not even the results of the calls that completed.       *)
(***************************************************************************)
C5_HungCallBlocksMap ==
    (\E i \in Tasks : tstate[i] = "hung") => (~PoolLeft /\ NothingWritten)

\* One call hangs, every other task has been collected: the loop waits on.
C5_Witness ==
    /\ pc = "collect"
    /\ N = 3
    /\ Cardinality(TasksIn({"hung"})) = 1
    /\ Cardinality(TasksIn({"yielded"})) = 2
    /\ Len(results) = 2
    /\ NothingWritten

(***************************************************************************)
(* C6, as claimed: results are appended strictly in the order in which     *)
(* their tasks completed.                                                  *)
(***************************************************************************)
C6_Claimed_CompletionOrder ==
    \A k1, k2 \in 1..Len(collected) :
        k1 < k2 => Pos(completed, collected[k1]) < Pos(completed, collected[k2])

(***************************************************************************)
(* C6, amended: the results of the tasks already complete when             *)
(* as_completed is called come first, in no particular order; the results  *)
(* of the tasks that complete after the call follow them, in the order in  *)
(* which their futures completed.                                          *)
(***************************************************************************)
C6_CompletionOrderAfterCall ==
    \A k1, k2 \in 1..Len(collected) :
        k1 < k2 =>
            /\ collected[k2] \in finished => collected[k1] \in finished
            /\ (collected[k1] \notin finished /\ collected[k2] \notin finished)
                 => Pos(completed, collected[k1]) < Pos(completed, collected[k2])

\* One task was complete at the call; the two others completed after it,
\* the later item first, and were collected in that order.
C6_Witness ==
    /\ pc = "done"
    /\ N = 3
    /\ Cardinality(finished) = 1
    /\ \E k1, k2 \in 1..Len(collected) :
         /\ k1 < k2
         /\ collected[k1] \notin finished
         /\ collected[k2] \notin finished
         /\ collected[k1] > collected[k2]

(***************************************************************************)
(* C7, as claimed: for j < k the task of expanded item k never starts      *)
(* before the task of expanded item j has started.                         *)
(***************************************************************************)
C7_Claimed_StartOrder ==
    \A j, k \in Tasks : (j < k /\ Started(k)) => Started(j)

(***************************************************************************)
(* C7, amended: tasks are submitted and dequeued in the order of the       *)
(* expanded items: for j < k the task of item k is never submitted, nor    *)
(* taken from the work queue, before the task of item j has been. With     *)
(* concurrency 1 they also start in that order; with more workers a        *)
(* dequeued task may start before an earlier dequeued one.                 *)
(***************************************************************************)
C7_DequeueOrder ==
    \A j, k \in Tasks :
        j < k =>
            /\ Submitted(k) => Submitted(j)
            /\ Taken(k) => Taken(j)
            /\ (concurrency = 1 /\ Started(k)) => Started(j)

\* Item 2 runs while item 1, dequeued before it, has yet to start, and
\* item 3 is still queued.
C7_Witness ==
    /\ N = 3
    /\ concurrency = 2
    /\ tstate[1] = "dequeued"
    /\ tstate[2] = "running"
    /\ tstate[3] = "queued"

(***************************************************************************)
(* C8, as claimed: the encoded output is the same for every completion     *)
(* order. The order in which the items were given is one of the completion *)
(* orders, so the output is always the encoding of the results taken in    *)
(* the order of their source items.                                        *)
(***************************************************************************)
C8_Claimed_OutputIndependentOfOrder ==
    pc = "done" =>
        IF output = "None"
        THEN stdout = output_to_stdout(<<>>, ResultsInItemOrder, oformat)
        ELSE file = output_to_file(PriorFile, ResultsInItemOrder, oformat)

(***************************************************************************)
(* C9: with include_input every result, success or failure, carries the    *)
(* content of its own source item; without it no result has an input.      *)
(***************************************************************************)
C9_InputEchoed ==
    \A k \in 1..Len(results) :
        IF include_input
        THEN /\ "input" \in DOMAIN results[k]
             /\ k <= Len(collected)
             /\ results[k].input = expanded_items[collected[k]].content
        ELSE "input" \notin DOMAIN results[k]

\* A success and a failure, of items with different contents.
C9_Witness ==
    /\ include_input
    /\ pc = "done"
    /\ \E k1, k2 \in 1..Len(results) :
         /\ IsSuccess(results[k1])
         /\ IsFailure(results[k2])
         /\ results[k1].input /= results[k2].input

(***************************************************************************)
(* C10: every result has a path and exactly one of a success content and   *)
(* a failure message.                                                      *)
(***************************************************************************)
C10_ExactlyOneOutcome ==
    /\ \A k \in 1..Len(results) :
         /\ "path" \in DOMAIN results[k]
         /\ IsSuccess(results[k]) /= IsFailure(results[k])
    /\ \A i \in TasksIn({"done", "yielded"}) :
         /\ "path" \in DOMAIN future[i]
         /\ IsSuccess(future[i]) /= IsFailure(future[i])

C10_Witness ==
    /\ Len(results) = 3
    /\ \E k \in 1..Len(results) : IsSuccess(results[k]) /\ ~IsFailure(results[k])
    /\ \E k \in 1..Len(results) : IsFailure(results[k]) /\ ~IsSuccess(results[k])

(***************************************************************************)
(* C11: the backend is called at most once for each expanded item, so at   *)
(* most branches * |items| times in a run, and exactly that many times,    *)
(* once map has left the pool, when the model lookup succeeds; a call that *)
(* failed is not made again: its task is complete after its one call.      *)
(***************************************************************************)
RECURSIVE SumSeq(_)
SumSeq(seq) == IF seq = <<>> THEN 0 ELSE Head(seq) + SumSeq(Tail(seq))

C11_AtMostOneCallPerItem ==
    /\ \A i \in DOMAIN calls : calls[i] <= 1
    /\ SumSeq(calls) <= branches * Len(items)
    /\ (PoolLeft /\ model = "known") => SumSeq(calls) = branches * Len(items)
    /\ \A i \in DOMAIN calls :
         outcome[i] = "err" => (calls[i] = 1 /\ tstate[i] \in {"done", "yielded"})

\* Two branches of one item: both calls were made, one failed, and map ended.
C11_Witness ==
    /\ pc = "done"
    /\ branches = 2
    /\ Len(items) = 1
    /\ SumSeq(calls) = 2
    /\ Cardinality(Failed) = 1

(***************************************************************************)
(* C12: expand_branches with a branch count of 1 returns the items as they *)
(* are. With a larger count it returns count * |items| items; the one at   *)
(* position i * |items| + j (counting branches i and items j from 0) has   *)
(* the path of item j behind the number i and an underscore, the number    *)
(* written in decimal, zero-padded to as many digits as count - 1 has: one *)
(* digit for 10 branches, two for 11. So the copies of a branch precede    *)
(* those of the next, and each branch keeps the order of the items.        *)
(***************************************************************************)
DecimalDigits(n) == IF n < 10 THEN 1 ELSE IF n < 100 THEN 2 ELSE 3

\* The w low decimal digits of i, most significant first.
RECURSIVE Padded(_, _)
Padded(i, w) == IF w = 0 THEN "" ELSE Padded(i \div 10, w - 1) \o Digit(i % 10)

C12_ExpandLayout ==
    pc = "pool" =>
        /\ branches = 1 => expanded_items = items
        /\ branches > 1 =>
             /\ Len(expanded_items) = branches * Len(items)
             /\ \A i \in 0..(branches - 1), j \in 1..Len(items) :
                  /\ i * Len(items) + j \in DOMAIN expanded_items
                  /\ expanded_items[i * Len(items) + j].path
                       = Padded(i, DecimalDigits(branches - 1))
                           \o "_" \o items[j].path
        /\ (branches = 10 /\ items /= <<>>) =>
             /\ expanded_items[1].path = "0_" \o items[1].path
             /\ expanded_items[Len(expanded_items)].path
                  = "9_" \o items[Len(items)].path
        /\ (branches = 11 /\ items /= <<>>) =>
             /\ expanded_items[1].path = "00_" \o items[1].path
             /\ expanded_items[Len(expanded_items)].path
                  = "10_" \o items[Len(items)].path

\* Eleven branches of three items: two digits, the last copy is of branch 10.
C12_Witness ==
    /\ pc = "pool"
    /\ branches = 11
    /\ Len(items) = 3
    /\ Len(expanded_items) = 33
    /\ expanded_items[4].path = "01_" \o items[1].path
    /\ expanded_items[33].path = "10_" \o items[3].path

(***************************************************************************)
(* C13: the expansion leaves the caller's items as they were, path and     *)
(* content, and every expanded copy has the content of its original.       *)
(***************************************************************************)
C13_ExpandFrame ==
    [][Expand =>
         /\ items' = items
         /\ \A n \in 1..Len(expanded_items') :
              expanded_items'[n].content
                = items[((n - 1) % Len(items)) + 1].content]_vars

\* Two branches of two items with different contents have been made.
C13_Witness ==
    /\ pc = "pool"
    /\ branches = 2
    /\ Len(items) = 2
    /\ Len(expanded_items) = 4
    /\ items[1].content /= items[2].content
    /\ expanded_items[3].content = items[1].content
    /\ expanded_items[3].path /= items[1].path

(***************************************************************************)
(* C14: the prompt sent to the backend is the item's content alone when    *)
(* the template is empty; the template with its first placeholder, and     *)
(* only the first, replaced by the content when it has a placeholder; and  *)
(* otherwise the template, a newline and the content.                      *)
(***************************************************************************)
HasPlaceholder(template) == \E k \in 1..Len(template) : template[k] = PLACEHOLDER

\* The text of the tokens from position a to position b.
Text(template, a, b) == Join(SubSeq(template, a, b))

ExpectedPrompt(template, content) ==
    IF Len(template) = 0
    THEN content
    ELSE IF HasPlaceholder(template)
         THEN LET k == Min({ j \in 1..Len(template) : template[j] = PLACEHOLDER })
              IN  Text(template, 1, k - 1) \o content
                      \o Text(template, k + 1, Len(template))
         ELSE Text(template, 1, Len(template)) \o "\n" \o content

C14_PromptPrecedence ==
    \A i \in Tasks :
        LET expected == ExpectedPrompt(prompt_template, expanded_items[i].content)
        IN  /\ outcome[i] = "ok" => future[i].content = response_text(expected)
            /\ outcome[i] = "err" => future[i].error = fault_message(expected)
            /\ (outcome[i] = "ok" /\ expanded_items[i].content = "X") =>
                 /\ prompt_template = <<>> => future[i].content = "R(X)"
                 /\ prompt_template = <<"Q: ", PLACEHOLDER, PLACEHOLDER>>
                      => future[i].content = "R(Q: X{item})"
                 /\ prompt_template = <<"Q: ", " vs ">>
                      => future[i].content = "R(Q:  vs \nX)"

\* A template with two placeholders: the second one reached the backend.
C14_Witness ==
    /\ pc = "done"
    /\ prompt_template = <<"Q: ", PLACEHOLDER, PLACEHOLDER>>
    /\ N = 1
    /\ outcome[1] = "ok"
    /\ future[1].content = "R(Q: X{item})"

(***************************************************************************)
(* C15: when include-input is set and the output format in effect, which   *)
(* is the format option when it is given and the oformat option otherwise, *)
(* is json or jsonarr, the map command fails, and it fails before the      *)
(* container is read, before any backend call and before any output; in    *)
(* every other case it does not fail that way.                             *)
(***************************************************************************)
C15_Conflict ==
    /\ cmd.input
    /\ \/ cmd.format \in {"json", "jsonarr"}
       \/ (cmd.format = NoValue /\ cmd.oformat \in {"json", "jsonarr"})

C15_ValidationFirst ==
    /\ (C15_Conflict /\ pc /= "map") =>
         /\ pc = "click_error"
         /\ opened = <<>>
         /\ items = <<>>
         /\ expanded_items = <<>>
         /\ SumSeq(calls) = 0
         /\ stderr = <<>>
         /\ NothingWritten
    /\ ~C15_Conflict => pc /= "click_error"

\* The format option says json, the oformat option jsonl: the command failed.
C15_Witness ==
    /\ pc = "click_error"
    /\ cmd.input
    /\ cmd.format = "json"
    /\ cmd.oformat = "jsonl"

(***************************************************************************)
(* Vocabulary of the properties of the archive command                     *)
(***************************************************************************)
\* The destination of the item of path p: its last component by name,
\* else basedir joined with it, which is p itself when p is absolute.
Target(p) ==
    IF cmd.basename
    THEN SubSeq(p, 1 + Max({0} \cup { q \in 1..Len(p) : p[q] = "/" }), Len(p))
    ELSE IF cmd.basedir /= <<>> /\ Head(p) /= "/"
    THEN cmd.basedir \o <<"/">> \o p
    ELSE p

\* The line that create prints for one pair of the line-delimited format.
LineOf(p) == json_dumps_dict(item_dict(p[1], p[2]))

\* The pairs of the well-formed lines of a text, in the order of the lines.
GoodOf(text) ==
    LET good == SelectSeq(split(text, "\n"), LAMBDA l : l \in GoodLines)
    IN  [ k \in 1..Len(good) |-> CHOOSE p \in GoodPairs : LineOf(p) = good[k] ]

\* The number of malformed lines of a text.
BadCount(text) ==
    Len(SelectSeq(split(text, "\n"), LAMBDA l : l \in BadLines))

\* An item of a run, from a pair.
ItemOf(p) == [path |-> Join(p[1]), content |-> Join(p[2])]

\* What extract prints for the pairs written, in their order.
ExtractedText(written) ==
    ConcatWith([ k \in 1..Len(written) |->
                   <<"Extracted: ">> \o Target(written[k][1]) \o <<"\n">> ],
               <<>>)

(***************************************************************************)
(* C16: when create and extract are both set, the archive command fails    *)
(* and no file is read or written and nothing is printed; with neither     *)
(* flag or with create only it bundles the files (it reads them and writes *)
(* none), with extract only it extracts (it reads the container only).     *)
(***************************************************************************)
C16_ArchiveDispatch ==
    [][pc = "archive" =>
         /\ (cmd.create /\ cmd.extract) =>
              /\ pc' = "click_error"
              /\ UNCHANGED << disk, opened, stdout, stderr, file >>
         /\ ~cmd.extract =>
              /\ pc' = "created"
              /\ disk' = disk
              /\ \A k \in 1..Len(opened') :
                    opened'[k][1] = "r" /\ opened'[k][2] \in Files
         /\ (cmd.extract /\ ~cmd.create) =>
              /\ pc' = "extracted"
              /\ \A k \in 1..Len(opened') :
                    \/ opened'[k] = <<"r", ARC>> /\ k = 1
                    \/ opened'[k][1] = "w" /\ opened'[k][2] \in DOMAIN disk'
      ]_vars

\* Both flags, with a container of two items at hand: the command failed.
C16_Witness ==
    /\ pc = "click_error"
    /\ cmd.create
    /\ cmd.extract
    /\ cmd.files = <<ARC>>
    /\ container = Encoded(<< << <<"b">>, <<"x", "\"", "\n", "<">> >>,
                              << <<"c">>, <<"y">> >> >>, "jsonl")
    /\ DOMAIN disk = {}

(***************************************************************************)
(* C17: of a line-delimited container with malformed lines, parse_input    *)
(* returns the items of the well-formed lines, in the order of the lines,  *)
(* and warns once for each malformed line; extract writes the items of     *)
(* the well-formed lines whose file can be written, in the order of the    *)
(* lines, and warns once for each other line that is not blank.            *)
(***************************************************************************)
C17_Containers == LineContainers(MaxLines)

C17_MalformedLinesSkipped ==
    container \in C17_Containers =>
      /\ (pc = "expand" /\ cmd.command = "map") =>
            /\ items = [ k \in 1..Len(GoodOf(container)) |->
                           ItemOf(GoodOf(container)[k]) ]
            /\ Len(stderr) = BadCount(container)
      /\ (pc = "extracted" /\ cmd.format = "jsonl") =>
            LET written == SelectSeq(GoodOf(container),
                                     LAMBDA p : Target(p[1]) \notin faulty)
            IN  /\ stdout = ExtractedText(written)
                /\ DOMAIN disk = { Target(written[k][1]) : k \in 1..Len(written) }
                /\ \A k \in 1..Len(written) :
                      disk[Target(written[k][1])] = written[k][2]
                /\ Len(stderr) = BadCount(container) + Len(GoodOf(container))
                                   - Len(written)

\* A malformed line first, then two well-formed lines: both items decoded.
C17_Witness ==
    /\ pc = "expand"
    /\ cmd.command = "map"
    /\ split(container, "\n")[1] \in BadLines
    /\ Len(items) = 2
    /\ Len(stderr) = 1

(***************************************************************************)
(* C18 (as claimed): in every format, when the file of one item cannot be  *)
(* written, extract warns once for that item and still writes the file of  *)
(* every other item of the container.                                      *)
(***************************************************************************)
DistinctPaths(ps) ==
    \A j, k \in 1..Len(ps) : j /= k => ps[j][1] /= ps[k][1]

\* The path that extract gives to the k-th item of the container of ps.
DecodedPath(ps, k, format) ==
    IF format = "jsonarr"
    THEN <<"i", "t", "e", "m", "_", Digit(k - 1), ".", "t", "x", "t">>
    ELSE IF format \in {"xml", "xmlish"}
    THEN replace(tag_name(ps[k][1]), "_", ".")
    ELSE ps[k][1]

C18_Lists == { ps \in PairLists(MaxFiles) : DistinctPaths(ps) }

C18_Claimed_WriteFailureSkipsOneItem ==
    pc = "extracted" =>
      \A ps \in C18_Lists :
        container = Encoded(ps, cmd.format) =>
          LET failing == { k \in 1..Len(ps) :
                             Target(DecodedPath(ps, k, cmd.format)) \in faulty }
          IN  /\ \A k \in (1..Len(ps)) \ failing :
                    Target(DecodedPath(ps, k, cmd.format)) \in DOMAIN disk
              /\ Len(stderr) = Cardinality(failing)

(***************************************************************************)
(* Vocabulary of the properties of create                                  *)
(***************************************************************************)
\* The part of an absolute path after its last "/".
BaseName(f) ==
    SubSeq(f, 1 + CHOOSE q \in 1..Len(f) :
                    f[q] = "/" /\ \A r \in (q + 1)..Len(f) : f[r] /= "/",
           Len(f))

Under(f, dir) == Len(f) > Len(dir) /\ SubSeq(f, 1, Len(dir) + 1) = dir \o <<"/">>

HasPrefix(f) == cmd.basedir = <<>> \/ Under(f, cmd.basedir)

\* The files of the command that pass the prefix check and can be read.
Passing == SelectSeq(cmd.files, LAMBDA f : HasPrefix(f) /\ f \notin Unreadable)

Display(f) ==
    IF cmd.basename THEN BaseName(f)
    ELSE IF cmd.basedir /= <<>> THEN SubSeq(f, Len(cmd.basedir) + 2, Len(f))
    ELSE f

\* One pair of logical path and content for each file that passes.
PassingPairs == [ k \in 1..Len(Passing) |-> << Display(Passing[k]), Tree[Passing[k]] >> ]

\* The warnings for the files that do not pass, in the order of the files.
SkipWarnings ==
    LET skipped == SelectSeq(cmd.files,
                             LAMBDA f : ~HasPrefix(f) \/ f \in Unreadable)
    IN  [ k \in 1..Len(skipped) |->
            << IF HasPrefix(skipped[k]) THEN "read" ELSE "prefix", skipped[k] >> ]

\* The container with exactly one record for each pair, in their order.
Records(pairs, format) ==
    CASE format = "json" -> echo(<<>>, json_dumps_dict(pairs))
      [] format = "jsonarr" ->
           echo(<<>>, json_dumps_list([ k \in 1..Len(pairs) |-> pairs[k][2] ]))
      [] OTHER ->
           ConcatWith([ k \in 1..Len(pairs) |->
                          echo(<<>>, archive_record(pairs[k][1], pairs[k][2],
                                                    format)) ],
                      <<>>)

\* One pair for each distinct path, at the place of the first pair of that
\* path and with the content of the last.
Collapsed(pairs) ==
    LET firsts == { k \in 1..Len(pairs) :
                      \A j \in 1..(k - 1) : pairs[j][1] /= pairs[k][1] }
        last(k) == CHOOSE j \in k..Len(pairs) :
                      /\ pairs[j][1] = pairs[k][1]
                      /\ \A i \in (j + 1)..Len(pairs) : pairs[i][1] /= pairs[k][1]
    IN  [ n \in 1..Cardinality(firsts) |->
            << pairs[Nth(firsts, n)][1], pairs[last(Nth(firsts, n))][2] >> ]

(***************************************************************************)
(* C19 (as claimed): in every format, create prints exactly one record for *)
(* each file that passes the prefix check and can be read, in the order of *)
(* the files, and warns for each other file.                               *)
(***************************************************************************)
C19_Claimed_OneRecordPerFile ==
    pc = "created" =>
      /\ stdout = Records(PassingPairs, cmd.format)
      /\ stderr = SkipWarnings

(***************************************************************************)
(* C19 (amended): create warns for each file that fails the prefix check   *)
(* or cannot be read and goes on; in the formats jsonl, jsonarr, xml and   *)
(* xmlish it prints exactly one record for each other file, in the order   *)
(* of the files; in the format json the files that have the same logical   *)
(* path make one record, at the place of the first of them and with the    *)
(* content of the last.                                                    *)
(***************************************************************************)
C19_RecordsOfPassingFiles ==
    pc = "created" =>
      /\ stdout = Records(IF cmd.format = "json" THEN Collapsed(PassingPairs)
                          ELSE PassingPairs,
                          cmd.format)
      /\ stderr = SkipWarnings

\* Two files of the same name bundled by name in the json format, after a
\* file that cannot be read: one record, with the content of the second.
C19_Witness ==
    /\ pc = "created"
    /\ cmd.format = "json"
    /\ cmd.basename
    /\ cmd.files = <<F_X, F_A>>
    /\ stderr = << <<"read", F_X>> >>
    /\ stdout = echo(<<>>, json_dumps_dict(<< << <<"a", ".", "t">>, Tree[F_A] >> >>))

(***************************************************************************)
(* Vocabulary of the round trip                                            *)
(***************************************************************************)
\* The path that the tag of the path p is decoded to.
TagPath(p) == replace(tag_name(p), "_", ".")

Lossy(p) == TagPath(p) /= p

\* The content c holds the closing tag of the path p.
HoldsClosingTag(p, c) ==
    LET closing == <<"<", "/">> \o tag_name(p) \o <<">">>
    IN  \E e \in 1..Len(c) :
            e + Len(closing) - 1 <= Len(c)
            /\ SubSeq(c, e, e + Len(closing) - 1) = closing

ItemsOf(pairs) == [ k \in 1..Len(pairs) |-> ItemOf(pairs[k]) ]

\* The container that create printed has been decoded by parse_input.
Decoded == pc = "expand" /\ cmd.command = "archive" /\ PassingPairs /= <<>>

(***************************************************************************)
(* C20 (as claimed): in every format, decoding the container that create   *)
(* printed for a non-empty sequence of items gives back the path and the   *)
(* content of every item, unless the format is tagged and the tag of some  *)
(* path does not decode to the path.                                       *)
(***************************************************************************)
C20_Claimed_RoundTrip ==
    Decoded =>
      \/ /\ cmd.format \in {"xml", "xmlish"}
         /\ \E k \in 1..Len(PassingPairs) : Lossy(PassingPairs[k][1])
      \/ items = ItemsOf(PassingPairs)

(***************************************************************************)
(* C20 (amended): decoding the container that create printed for a         *)
(* non-empty sequence of items gives back, in the format jsonl, the path   *)
(* and the content of every item; in the format json, one item for each    *)
(* distinct path, with the content of the last item of that path, so       *)
(* every item when the paths are distinct; in the format jsonarr, the      *)
(* content of every item under the path item_i of its position i from 0;   *)
(* in the format xml, the content of every item under the path that its    *)
(* tag decodes to, which is its path when the path is made of letters,     *)
(* digits, "." and "-"; in the format xmlish the same, provided that no    *)
(* content holds the closing tag of its own item.                          *)
(***************************************************************************)
C20_RoundTrip ==
    Decoded =>
      CASE cmd.format = "jsonl" -> items = ItemsOf(PassingPairs)
        [] cmd.format = "json" -> items = ItemsOf(Collapsed(PassingPairs))
        [] cmd.format = "jsonarr" ->
             items = [ k \in 1..Len(PassingPairs) |->
                         [path |-> "item_" \o Digit(k - 1),
                          content |-> Join(PassingPairs[k][2])] ]
        [] cmd.format \in {"xml", "xmlish"} ->
             \/ /\ cmd.format = "xmlish"
                /\ \E k \in 1..Len(PassingPairs) :
                      HoldsClosingTag(PassingPairs[k][1], PassingPairs[k][2])
             \/ items = [ k \in 1..Len(PassingPairs) |->
                           [path |-> Join(TagPath(PassingPairs[k][1])),
                            content |-> Join(PassingPairs[k][2])] ]

\* Two files bundled by name in the xml format, one with a quote, a newline
\* and "<" in its content, the other with its own closing tag: both are
\* given back.
C20_Witness ==
    /\ Decoded
    /\ cmd.format = "xml"
    /\ cmd.basename
    /\ cmd.files = <<F_A, F_C>>
    /\ items = << [path |-> "a.t", content |-> "x\"\n<"],
                  [path |-> "c", content |-> "</c>"] >>

(***************************************************************************)
(* C21: create skips, with a warning, each file that is not under basedir  *)
(* when basedir is given, whether or not basename is set; the logical path *)
(* of every other file is its bare name when basename is set, else its     *)
(* path relative to basedir when basedir is given, else its full path.     *)
(***************************************************************************)
C21_LogicalPath ==
    (pc = "created" /\ cmd.format = "jsonl") =>
      LET outside == { k \in 1..Len(cmd.files) :
                         cmd.basedir /= <<>> /\ ~Under(cmd.files[k], cmd.basedir) }
          kept == { k \in 1..Len(cmd.files) :
                      k \notin outside /\ cmd.files[k] \notin Unreadable }
          logical(f) == CASE cmd.basename -> BaseName(f)
                          [] ~cmd.basename /\ cmd.basedir /= <<>> ->
                               SubSeq(f, Len(cmd.basedir) + 2, Len(f))
                          [] OTHER -> f
      IN  /\ { w[2] : w \in { stderr[j] : j \in 1..Len(stderr) } \cap
                                ({"prefix"} \X Files) }
               = { cmd.files[k] : k \in outside }
          /\ stdout = ConcatWith(
                         [ n \in 1..Cardinality(kept) |->
                             LineOf(<< logical(cmd.files[Nth(kept, n)]),
                                       Tree[cmd.files[Nth(kept, n)]] >>)
                               \o <<"\n">> ],
                         <<>>)

\* By name and under /d: the file of /e is skipped, the file of /d/s is
\* bundled under its bare name.
C21_Witness ==
    /\ pc = "created"
    /\ cmd.format = "jsonl"
    /\ cmd.basename
    /\ cmd.basedir = <<"/", "d">>
    /\ cmd.files = <<F_B, F_SA>>
    /\ stderr = << <<"prefix", F_B>> >>
    /\ stdout = LineOf(<< <<"a", ".", "t">>, Tree[F_SA] >>) \o <<"\n">>

(***************************************************************************)
(* C22: extract writes each item to the last component of its path when    *)
(* basename is set, whatever basedir is, else to basedir joined with its   *)
(* path when basedir is given (an absolute path is not moved by the join), *)
(* else to its path; a file that is already there is overwritten, so a     *)
(* destination that several items have holds the content of the last of    *)
(* them.                                                                   *)
(***************************************************************************)
C22_Destinations ==
    (pc = "extracted" /\ faulty = {}) =>
      \A ps \in C18_Lists :
        container = Encoded(ps, cmd.format) =>
          LET dest(k) == Target(DecodedPath(ps, k, cmd.format))
          IN  /\ DOMAIN disk = { dest(k) : k \in 1..Len(ps) }
              /\ \A k \in 1..Len(ps) :
                    (\A j \in (k + 1)..Len(ps) : dest(j) /= dest(k)) =>
                      disk[dest(k)] = ps[k][2]
              /\ stdout = ConcatWith([ k \in 1..Len(ps) |->
                                         <<"Extracted: ">> \o dest(k) \o <<"\n">> ],
                                     <<>>)
              /\ stderr = <<>>

\* By name, in spite of a basedir: b and then s/b are both written to b,
\* which holds the content of s/b.
C22_Witness ==
    /\ pc = "extracted"
    /\ cmd.basename
    /\ cmd.basedir = <<"o">>
    /\ cmd.format = "jsonl"
    /\ container = Encoded(<< << <<"b">>, <<"x", "\"", "\n", "<">> >>,
                              << <<"s", "/", "b">>, <<"z">> >> >>, "jsonl")
    /\ DOMAIN disk = { <<"b">> }
    /\ disk[<<"b">>] = <<"z">>
    /\ Len(opened) >= 2

(***************************************************************************)
(* C23: the progress bar is a side channel. With or without it the results *)
(* are those of the futures in the order in which the loop took them; the  *)
(* bar, when there is one, stands at the number of results collected; and  *)
(* whatever the bar does, an idle worker can take a queued task, a task    *)
(* taken can start, and the loop can take a future that is ready.          *)
(***************************************************************************)
C23_ProgressSideChannel ==
    /\ bar = IF show_progress THEN Len(results) ELSE 0
    /\ results = [ k \in 1..Len(collected) |-> future[collected[k]] ]
    /\ (IdleThreads > 0 /\ Queued /= {}) => ENABLED Dequeue
    /\ \A i \in Tasks : tstate[i] = "dequeued" => ENABLED Start(i)
    /\ \A i \in Tasks : tstate[i] = "running" => ENABLED Return(i)
    /\ (pc = "collect" /\ Yieldable /= {}) => ENABLED (Collect \/ CollectWithBar)

\* With a bar, two results collected while a third task is still running.
C23_Witness ==
    /\ show_progress
    /\ bar = 2
    /\ Len(results) = 2
    /\ N = 3
    /\ TasksIn({"running"}) /= {}

(***************************************************************************)
(* C24 (as claimed): with concurrency 1 at most one backend call is in     *)
(* flight, a call starts only when the calls of all earlier items are      *)
(* over, and the results are collected in the order of the expanded items. *)
(***************************************************************************)
C24_Claimed_Sequential ==
    concurrency = 1 =>
      /\ Cardinality(InFlight) <= 1
      /\ \A j, k \in Tasks :
            (j < k /\ Started(k)) => tstate[j] \in {"hung", "done", "yielded"}
      /\ \A n \in 1..Len(collected) : collected[n] = n

(***************************************************************************)
(* C25 (as claimed): process_item never raises. Whatever parse_input       *)
(* returned, every completed future holds a result with a path and either  *)
(* a content or an error, and map_items is never left by an exception: it  *)
(* goes on to write the output.                                            *)
(***************************************************************************)
C25_Claimed_NeverRaises ==
    /\ \A i \in Tasks :
          tstate[i] \in {"done", "yielded"} =>
            /\ ~holds_exception(future[i])
            /\ "path" \in DOMAIN future[i]
            /\ ("content" \in DOMAIN future[i]) /= ("error" \in DOMAIN future[i])
    /\ pc \notin {"unwind", "raised"}

(***************************************************************************)
(* C26 (as claimed): when every backend call returns or raises and the     *)
(* threads are scheduled fairly, a run with concurrency >= 1 on the items   *)
(* decoded eventually terminates having written the output, whatever the   *)
(* number of items.                                                        *)
(***************************************************************************)
C26_Claimed_Terminates == (pc = "expand") ~> (pc = "done" /\ output /= NoValue)

(***************************************************************************)
(* C27: with json output the object written has one key per distinct path  *)
(* among the results, in the order of the first result of each path, and   *)
(* the value of a key is that of the result collected last with that path: *)
(* the other results of the path are not in the output.                    *)
(***************************************************************************)
\* The positions in results of the first result of each path.
FirstOfPath == { k \in 1..Len(results) :
                   \A j \in 1..(k - 1) : results[j].path /= results[k].path }

\* The position in results of the result collected last with path p.
LastWithPath(p) == Max({ k \in 1..Len(results) : results[k].path = p })

KeyedObject ==
    "{" \o JoinWith([ n \in 1..Cardinality(FirstOfPath) |->
                        Quote(results[Nth(FirstOfPath, n)].path) \o ": "
                          \o json_value(results[LastWithPath(
                                            results[Nth(FirstOfPath, n)].path)]) ],
                    ", ")
        \o "}"

C27_KeyedObjectLastWins ==
    (pc = "done" /\ oformat = "json") =>
        IF output = "None"
        THEN stdout = << KeyedObject \o "\n" >> /\ file = PriorFile
        ELSE file = << KeyedObject >> /\ stdout = <<>>

\* Two results of one path with different values were collected, the one
\* of the later item first, so the entry written is that of the earlier item.
C27_Witness ==
    /\ pc = "done"
    /\ oformat = "json"
    /\ \E j, k \in 1..Len(results) :
          /\ j < k
          /\ collected[j] > collected[k]
          /\ results[j].path = results[k].path
          /\ json_value(results[j]) /= json_value(results[k])
          /\ k = LastWithPath(results[k].path)
    /\ Cardinality(FirstOfPath) < Len(results)

(***************************************************************************)
(* C28: with jsonl output to a file, what the file held before the run is  *)
(* still there and one line per result follows it, in collection order;    *)
(* with json or jsonarr output to a file, the file holds the one encoded   *)
(* value and nothing of what it held before.                               *)
(***************************************************************************)
C28_AppendOrReplace ==
    (pc = "done" /\ output /= "None") =>
        /\ stdout = <<>>
        /\ oformat = "jsonl" =>
              /\ Len(file) = Len(PriorFile) + Len(results)
              /\ SubSeq(file, 1, Len(PriorFile)) = PriorFile
              /\ \A k \in 1..Len(results) :
                    file[Len(PriorFile) + k] = dumps_result(results[k]) \o "\n"
        /\ oformat = "json" => file = << json_text(results) >>
        /\ oformat = "jsonarr" => file = << jsonarr_text(results) >>
        /\ oformat \in {"json", "jsonarr"} =>
              \A k \in 1..Len(file) : file[k] /= PriorFile[1]

\* A run of two results or more has written jsonl to a file that was not
\* empty.
C28_Witness ==
    /\ pc = "done"
    /\ output /= "None"
    /\ oformat = "jsonl"
    /\ PriorFile /= <<>>
    /\ Len(results) >= 2
    /\ Len(file) = Len(PriorFile) + Len(results)

(***************************************************************************)
(* C29: with a concurrency that is not positive map_items goes no further  *)
(* than the creation of the pool, which raises once the items are          *)
(* expanded: no task is ever submitted, no thread started, no backend call *)
(* made, no result collected and nothing written.                          *)
(***************************************************************************)
C29_PoolCreationFails ==
    concurrency <= 0 =>
        /\ pc \in {"expand", "pool", "raised"}
        /\ pc = "pool" => ENABLED CreatePool
        /\ pc = "raised" =>
              /\ N = branches * Len(items)
              /\ branches = 1 => expanded_items = items
        /\ \A i \in Tasks : tstate[i] = "new" /\ calls[i] = 0
        /\ num_threads = 0
        /\ results = <<>>
        /\ completed = <<>>
        /\ NothingWritten

\* The creation of the pool has raised in a run of two items or more.
C29_Witness ==
    /\ concurrency <= 0
    /\ pc = "raised"
    /\ N >= 2
    /\ \A i \in Tasks : tstate[i] = "new"

=============================================================================
